---- MODULE Spec2Model ----
(***************************************************************************)
(* A model of AnchorLab's memory store (memory_system_implementation.py),  *)
(* personality mixer (personality_mixer.py), autonomous controllers        *)
(* (autonomous_agent_integration.py) and session persistence               *)
(* (main_py_persistence_fix.py).                                           *)
(*                                                                         *)
(* Numbers.  The code computes in floating point; the model computes the   *)
(* same expressions exactly, in fixed point:                               *)
(*   importance, cleanup_threshold      hundredths        (0.5  -> 50)     *)
(*   decay_rate                         thousandths       (0.975 -> 975)   *)
(*   anchor context values              tenths            (0.2  -> 2)      *)
(*   current strength                   1 / StrengthDen                    *)
(*   relevance score                    1 / ScoreDen                       *)
(*   mixing weights, trait values       thousandths       (0.6  -> 600)    *)
(*   energy, core vector, diagnostics   hundredths        (0.85 -> 85)     *)
(*   controller time                    units of 5 s      (30 s -> 6)      *)
(* The clock is a count of ticks, one tick being the resolution of the     *)
(* node id (int(time.time() * 1000), one millisecond); a day is scaled     *)
(* down to TicksPerDay ticks.                                              *)
(***************************************************************************)
EXTENDS Integers, Sequences, FiniteSets, TLC

VARIABLES now, memories, memory_clusters, stored, retrieved, call, callers, scenario,
          mix_request, mix_outcome, mix_previous, hash_seed,
          clock, agents, sessions, manager, tasks, event,
          loaded, redis, cleanup_pass, request

memvars == <<now, memories, memory_clusters, stored, retrieved, call, callers>>

mixvars == <<mix_request, mix_outcome, mix_previous, hash_seed>>

agentvars == <<clock, agents, sessions, manager, tasks, event>>

persistvars == <<loaded, redis, cleanup_pass, request>>

vars == <<now, memories, memory_clusters, stored, retrieved, call, callers, scenario,
          mix_request, mix_outcome, mix_previous, hash_seed,
          clock, agents, sessions, manager, tasks, event,
          loaded, redis, cleanup_pass, request>>

----------------------------------------------------------------------------
(* Bounds of the model *)

MaxNow == 2
TicksPerDay == 2
MaxStores == 2
MaxRetrieves == 1
max_memories == 1
MaxComponents == 2
MaxElapsed == 2
MaxExecutions == 102
MaxCallers == 2
MaxAccesses == 3

(* Program constants *)

cleanup_threshold == 10
AccessBoost == 1
TypeBonus == 20
SimilarityWeight == 3

MemoryTypes == {"interaction", "pattern", "preference", "crisis"}

Dims == {"Fear", "Safety"}

NoType == "None"

EmptyContext == [k \in {} |-> 0]

ContextA == [k \in {"Fear", "Safety"} |-> IF k = "Fear" THEN 2 ELSE 8]

ContextB == [k \in {"Fear"} |-> 2]

ContextQ == [k \in {"Fear", "Safety"} |-> 8]

(* Inputs of store_memory: (memory_type, importance, anchor_context) *)
StoreInputs ==
    { <<"crisis", 90, ContextA>>, <<"interaction", 10, ContextB>>,
      <<"pattern", 100, EmptyContext>> }

(* Inputs of retrieve_memories *)
QueryTypes == { NoType, "crisis" }

QueryContexts == { EmptyContext, ContextQ }

Limits == { 1, 10 }

----------------------------------------------------------------------------
(* Arithmetic helpers *)

RECURSIVE Pow(_, _)
Pow(b, e) == IF e = 0 THEN 1 ELSE b * Pow(b, e - 1)

Abs(x) == IF x < 0 THEN -x ELSE x

Min(a, b) == IF a < b THEN a ELSE b

RECURSIVE SumOver(_, _)
SumOver(f, S) ==
    IF S = {} THEN 0
    ELSE LET x == CHOOSE y \in S : TRUE IN f[x] + SumOver(f, S \ {x})

MaxDays == MaxNow \div TicksPerDay

(* decay rates carry three decimals *)
RateDen == Pow(10, 3)

StrengthDen == 100 * Pow(RateDen, MaxDays)

ScoreDen == StrengthDen * Cardinality(Dims)

----------------------------------------------------------------------------
(* MemoryNode *)

BaseRate(memory_type) ==
    CASE memory_type = "interaction" -> 950
      [] memory_type = "pattern"     -> 980
      [] memory_type = "preference"  -> 990
      [] memory_type = "crisis"      -> 999
      [] OTHER                       -> 950

(* base_rates.get(type, 0.95) + importance * 0.05, in thousandths (exact   *)
(* for the even importances of StoreInputs).                               *)
CalculateDecayRate(memory_type, importance) ==
    BaseRate(memory_type) + (importance * 5) \div 10

(* "mem_" + int(time.time() * 1000): the id is the clock reading. *)
NodeId(t) == t

NewNode(content, memory_type, importance, anchor_context, t) ==
    [ id |-> NodeId(t),
      content |-> content,
      memory_type |-> memory_type,
      importance |-> importance,
      created_at |-> t,
      last_accessed |-> t,
      access_count |-> 1,
      anchor_context |-> anchor_context,
      decay_rate |-> CalculateDecayRate(memory_type, importance) ]

(* access() lowering the importance *)
AccessLowering(node, t) ==
    [ node EXCEPT !.last_accessed = t,
                  !.access_count = @ + 1,
                  !.importance = Min(100, @ - AccessBoost) ]

(* access() without the cap on importance *)
AccessUncapped(node, t) ==
    [ node EXCEPT !.last_accessed = t,
                  !.access_count = @ + 1,
                  !.importance = @ + AccessBoost ]

Access(node, t) ==
    [ node EXCEPT !.last_accessed = t,
                  !.access_count = @ + 1,
                  !.importance = Min(100, @ + AccessBoost) ]

DaysSinceAccess(node, t) == (t - node.last_accessed) \div TicksPerDay

(* importance * decay_rate ** days, as a numerator over StrengthDen *)
GetCurrentStrength(node, t) ==
    LET d == DaysSinceAccess(node, t)
    IN node.importance * Pow(node.decay_rate, d) * Pow(RateDen, MaxDays - d)

ThresholdNum == cleanup_threshold * Pow(RateDen, MaxDays)

ToDict(node, t) ==
    [ id |-> node.id,
      content |-> node.content,
      memory_type |-> node.memory_type,
      importance |-> node.importance,
      created_at |-> node.created_at,
      last_accessed |-> node.last_accessed,
      access_count |-> node.access_count,
      anchor_context |-> node.anchor_context,
      current_strength |-> GetCurrentStrength(node, t) ]

----------------------------------------------------------------------------
(* EnhancedMemorySystem: the mapping is an insertion-ordered dict, kept as *)
(* the sequence of its values in key order of insertion.                   *)

Keys(mems) == { mems[i].id : i \in 1..Len(mems) }

IndexOf(mems, id) == CHOOSE i \in 1..Len(mems) : mems[i].id = id

(* self.memories[node.id] = node: a new key is appended, an existing key   *)
(* keeps its position and gets the new value.                              *)
DictSet(mems, node) ==
    IF node.id \in Keys(mems)
    THEN [ mems EXCEPT ![IndexOf(mems, node.id)] = node ]
    ELSE Append(mems, node)

DictDel(mems, id) == SelectSeq(mems, LAMBDA n : n.id # id)

(* list.remove(x): drops the first occurrence of x *)
ListRemove(list, x) ==
    LET i == CHOOSE j \in 1..Len(list) :
                 list[j] = x /\ \A k \in 1..(j - 1) : list[k] # x
    IN SubSeq(list, 1, i - 1) \o SubSeq(list, i + 1, Len(list))

InList(list, x) == \E j \in 1..Len(list) : list[j] = x

ClusterAppend(clusters, memory_type, id) ==
    [ t \in DOMAIN clusters \cup {memory_type} |->
        IF t = memory_type
        THEN Append(IF t \in DOMAIN clusters THEN clusters[t] ELSE <<>>, id)
        ELSE clusters[t] ]

(* _calculate_anchor_similarity: mean of 1 - |a - b| over the common keys, *)
(* as a numerator over 10 * Cardinality(Dims)                              *)
CalculateAnchorSimilarity(context1, context2) ==
    LET common_keys == DOMAIN context1 \cap DOMAIN context2
        sims == [ k \in common_keys |-> 10 - Abs(context1[k] - context2[k]) ]
    IN IF common_keys = {} THEN 0
       ELSE SumOver(sims, common_keys) * (Cardinality(Dims) \div Cardinality(common_keys))

IsWeak(node, t) == GetCurrentStrength(node, t) < ThresholdNum

(* the score of one candidate, as a numerator over ScoreDen *)
Score(node, query_type, anchor_context, t) ==
    GetCurrentStrength(node, t) * Cardinality(Dims)
    + (IF query_type # NoType /\ node.memory_type = query_type
       THEN TypeBonus * Pow(RateDen, MaxDays) * Cardinality(Dims) ELSE 0)
    + (IF DOMAIN anchor_context # {} /\ DOMAIN node.anchor_context # {}
       THEN SimilarityWeight
            * CalculateAnchorSimilarity(anchor_context, node.anchor_context)
            * (StrengthDen \div 100)
       ELSE 0)

(* candidates.sort(key = score, reverse = True): a stable sort, so equal   *)
(* scores keep the dict order.  cands is a sequence of [score, idx].       *)
SortByScore(cands) ==
    LET n == Len(cands)
        rank(i) == 1 + Cardinality({ j \in 1..n :
                        \/ cands[j].score > cands[i].score
                        \/ cands[j].score = cands[i].score /\ j < i })
    IN [ r \in 1..n |-> cands[CHOOSE i \in 1..n : rank(i) = r] ]

(* retrieve_memories without the threshold test *)
CandidatesUnfiltered(mems, query_type, anchor_context, t) ==
    [ i \in 1..Len(mems) |->
        [ score |-> Score(mems[i], query_type, anchor_context, t), idx |-> i ] ]

(* retrieve_memories scoring each node after reinforcing it *)
CandidatesReinforcedFirst(mems, query_type, anchor_context, t) ==
    LET all == [ i \in 1..Len(mems) |->
                   [ score |-> Score(Access(mems[i], t), query_type, anchor_context, t),
                     idx |-> i ] ]
    IN SelectSeq(all, LAMBDA c : ~IsWeak(mems[c.idx], t))

(* the first loop of retrieve_memories: the (score, memory) pairs of the   *)
(* nodes at or above the threshold, in dict order                          *)
Candidates(mems, query_type, anchor_context, t) ==
    LET all == [ i \in 1..Len(mems) |->
                   [ score |-> Score(mems[i], query_type, anchor_context, t),
                     idx |-> i ] ]
    IN SelectSeq(all, LAMBDA c : ~IsWeak(mems[c.idx], t))

(* candidates[:limit] *)
Take(seq, limit) == SubSeq(seq, 1, Min(limit, Len(seq)))

Selected(mems, query_type, anchor_context, limit, t) ==
    Take(SortByScore(Candidates(mems, query_type, anchor_context, t)), limit)

(* to_remove of _cleanup_weak_memories, in dict order *)
ToRemove(mems, t) ==
    LET ids == [ i \in 1..Len(mems) |-> mems[i].id ]
    IN SelectSeq(ids, LAMBDA id : IsWeak(mems[IndexOf(mems, id)], t))

(* the second loop of _cleanup_weak_memories: <<memories, clusters>> after *)
(* removing the ids of to_remove one by one                                *)
RECURSIVE RemoveAll(_, _, _)
RemoveAll(mems, clusters, to_remove) ==
    IF to_remove = <<>> THEN <<mems, clusters>>
    ELSE LET memory_id == Head(to_remove)
             memory == mems[IndexOf(mems, memory_id)]
             mt == memory.memory_type
             clusters1 ==
                 IF mt \in DOMAIN clusters /\ InList(clusters[mt], memory_id)
                 THEN [ clusters EXCEPT ![mt] = ListRemove(@, memory_id) ]
                 ELSE clusters
         IN RemoveAll(DictDel(mems, memory_id), clusters1, Tail(to_remove))

CleanupWeakMemories(mems, clusters, t) == RemoveAll(mems, clusters, ToRemove(mems, t))

----------------------------------------------------------------------------
(* PersonalityMixer *)

(* load_foundation_personalities: the names of the catalog *)
Foundations == { "scientist", "researcher", "friend", "skeptic", "artist" }

(* _get_foundation_personality: the names it holds data for; the catalog   *)
(* entry of every other foundation is the empty dict                       *)
WithData == { "scientist", "artist", "skeptic" }

CoreKeys == { "Fear", "Safety", "Time", "Choice" }

PersonalityKeys ==
    { "openness_intellect", "openness_aesthetic",
      "conscientious_industriousness", "conscientious_orderliness",
      "extraversion_assertiveness", "extraversion_enthusiasm",
      "agreeableness_compassion", "agreeableness_politeness",
      "neuroticism_volatility", "neuroticism_withdrawal" }

ScientistProfile ==
    [ goal_statement |-> << "Systematically explore, test hypotheses, and share evidence-based knowledge", "" >>,
      persona_style |-> "Methodical researcher - speaks with precision, references studies.",
      core_vector_default |-> [ Fear |-> 250, Safety |-> 750, Time |-> 700, Choice |-> 800 ],
      personality_vector |->
        [ openness_intellect |-> 950, openness_aesthetic |-> 600,
          conscientious_industriousness |-> 900, conscientious_orderliness |-> 850,
          extraversion_assertiveness |-> 650, extraversion_enthusiasm |-> 700,
          agreeableness_compassion |-> 600, agreeableness_politeness |-> 750,
          neuroticism_volatility |-> 200, neuroticism_withdrawal |-> 150 ],
      root_nodes |-> << "SCI001" >>,
      examples |-> << [ user |-> "What do you think?", assistant |-> "Let's examine the evidence." ] >> ]

ArtistProfile ==
    [ goal_statement |-> << "Create, inspire, and explore the boundaries of imagination", "" >>,
      persona_style |-> "Creative visionary - speaks in metaphors, sees connections others miss.",
      core_vector_default |-> [ Fear |-> 350, Safety |-> 750, Time |-> 450, Choice |-> 900 ],
      personality_vector |->
        [ openness_intellect |-> 850, openness_aesthetic |-> 980,
          conscientious_industriousness |-> 500, conscientious_orderliness |-> 300,
          extraversion_assertiveness |-> 600, extraversion_enthusiasm |-> 850,
          agreeableness_compassion |-> 800, agreeableness_politeness |-> 600,
          neuroticism_volatility |-> 400, neuroticism_withdrawal |-> 250 ],
      root_nodes |-> << "ART001" >>,
      examples |-> << [ user |-> "I'm stuck creatively.", assistant |-> "Creative blocks are like frozen rivers." ] >> ]

SkepticProfile ==
    [ goal_statement |-> << "Question assumptions, demand evidence, and help separate signal from noise", "" >>,
      persona_style |-> "Critical thinker - asks 'how do we know?', challenges assumptions.",
      core_vector_default |-> [ Fear |-> 400, Safety |-> 600, Time |-> 500, Choice |-> 750 ],
      personality_vector |->
        [ openness_intellect |-> 850, openness_aesthetic |-> 450,
          conscientious_industriousness |-> 800, conscientious_orderliness |-> 750,
          extraversion_assertiveness |-> 700, extraversion_enthusiasm |-> 400,
          agreeableness_compassion |-> 400, agreeableness_politeness |-> 300,
          neuroticism_volatility |-> 250, neuroticism_withdrawal |-> 200 ],
      root_nodes |-> << "SKP001" >>,
      examples |-> << [ user |-> "Everyone says this works.", assistant |-> "What evidence beyond anecdotes?" ] >> ]

(* _get_foundation_personality(name); goal_statement is kept split at its  *)
(* periods, as goal.split('.') gives it                                    *)
GetFoundationPersonality(name) ==
    CASE name = "scientist" -> ScientistProfile
      [] name = "artist"    -> ArtistProfile
      [] name = "skeptic"   -> SkepticProfile

(* (the dash of the persona styles is written "-")                         *)

(* str.lower() on the first sentences of the goal statements *)
Lower(text) ==
    CASE text = "Systematically explore, test hypotheses, and share evidence-based knowledge"
              -> "systematically explore, test hypotheses, and share evidence-based knowledge"
      [] text = "Create, inspire, and explore the boundaries of imagination"
              -> "create, inspire, and explore the boundaries of imagination"
      [] text = "Question assumptions, demand evidence, and help separate signal from noise"
              -> "question assumptions, demand evidence, and help separate signal from noise"
      [] OTHER -> text

(* The outcomes of a dict lookup self.base_personalities[name][field]:     *)
(* KeyError when the name is not in the catalog or its entry is empty      *)
LookupFails(name) == name \notin Foundations \/ name \notin WithData

NoGoal == "None"

(* custom_goal or ...: None and the empty string count as not supplied *)
Falsy(custom_goal) == custom_goal = NoGoal \/ custom_goal = ""

RECURSIVE SumWeights(_)
SumWeights(combinations) ==
    IF combinations = <<>> THEN 0
    ELSE Head(combinations)[2] + SumWeights(Tail(combinations))

(* the weight test with a tolerance of 0.1 *)
WeightsRejectedLoosely(combinations) == Abs(SumWeights(combinations) - 1000) > 100

(* the weight test of mix_personalities: abs(total_weight - 1.0) > 0.01 *)
WeightsRejected(combinations) == Abs(SumWeights(combinations) - 1000) > 10

(* max(combinations, key = weight): the first component of greatest weight *)
Dominant(combinations) ==
    combinations[CHOOSE i \in 1..Len(combinations) :
        /\ \A j \in 1..Len(combinations) : combinations[j][2] <= combinations[i][2]
        /\ \A j \in 1..(i - 1) : combinations[j][2] < combinations[i][2]]

(* round(x, 3) of x given in millionths: to the nearest thousandth, a tie  *)
(* going to the even one                                                   *)
Round3(x) ==
    LET q == x \div 1000
        r == x % 1000
    IN IF r * 2 < 1000 THEN q
       ELSE IF r * 2 > 1000 THEN q + 1
       ELSE IF q % 2 = 0 THEN q ELSE q + 1

RECURSIVE WeightedTotal(_)
WeightedTotal(weighted_values) ==
    IF weighted_values = <<>> THEN 0
    ELSE Head(weighted_values)[1] * Head(weighted_values)[2]
         + WeightedTotal(Tail(weighted_values))

(* _weighted_average with the total cut to three decimals, not rounded *)
WeightedAverageTruncated(weighted_values) == WeightedTotal(weighted_values) \div 1000

(* _weighted_average *)
WeightedAverage(weighted_values) == Round3(WeightedTotal(weighted_values))

(* _generate_mixed_goal taking the components of weight >= 0.3 *)
GenerateMixedGoalInclusive(combinations) ==
    LET significant == SelectSeq(combinations, LAMBDA c : c[2] >= 300)
        goal_elements == [ i \in 1..Len(significant) |->
                             Lower(Head(GetFoundationPersonality(significant[i][1]).goal_statement)) ]
    IN << "Combine " >> \o goal_elements \o << " in a unified approach." >>

(* _generate_mixed_goal: "Combine " + the lower-cased first sentences of   *)
(* the components of weight > 0.3, joined by ", " + " in a unified         *)
(* approach.", kept as the list of its pieces                              *)
GenerateMixedGoal(combinations) ==
    LET significant == SelectSeq(combinations, LAMBDA c : c[2] > 300)
        goal_elements == [ i \in 1..Len(significant) |->
                             Lower(Head(GetFoundationPersonality(significant[i][1]).goal_statement)) ]
    IN << "Combine " >> \o goal_elements \o << " in a unified approach." >>

(* _generate_mixed_persona_style: the style of the dominant component and  *)
(* the names of the other components of weight > 0.2                       *)
GenerateMixedPersonaStyle(combinations) ==
    LET dominant == Dominant(combinations)
        others == SelectSeq(combinations, LAMBDA c : c[1] # dominant[1] /\ c[2] > 200)
        other_traits == [ i \in 1..Len(others) |-> others[i][1] ]
    IN [ base_style |-> GetFoundationPersonality(dominant[1]).persona_style,
         enhanced_with |-> other_traits ]

(* _generate_mixed_examples: base_examples[:2] of the dominant component *)
GenerateMixedExamples(combinations) ==
    Take(GetFoundationPersonality(Dominant(combinations)[1]).examples, 2)

MixedVector(combinations, field, keys) ==
    [ key \in keys |->
        WeightedAverage([ i \in 1..Len(combinations) |->
            << GetFoundationPersonality(combinations[i][1])[field][key],
               combinations[i][2] >> ]) ]

RootNodeIds == { "SCI001", "ART001", "SKP001" }

(* The iteration order of a set of strings follows their hashes, which the *)
(* interpreter salts with a seed it draws when the process starts: a seed  *)
(* is kept as the order it gives the root node ids.                        *)
HashSeeds ==
    { order \in [ 1..Cardinality(RootNodeIds) -> RootNodeIds ] :
        \A i, j \in DOMAIN order : i # j => order[i] # order[j] }

Unseeded == <<>>

(* list(set(all_nodes)): the root nodes of all components, each once, in   *)
(* the order the set is iterated in                                        *)
RootNodes(combinations, order) ==
    LET all_nodes ==
            UNION { { GetFoundationPersonality(combinations[i][1]).root_nodes[j] :
                        j \in 1..Len(GetFoundationPersonality(combinations[i][1]).root_nodes) } :
                    i \in 1..Len(combinations) }
    IN SelectSeq(order, LAMBDA id : id \in all_nodes)

Raised(error, where) == [ status |-> error, raised_in |-> where ]

(* mix_personalities(combinations, custom_goal): the exception it raises   *)
(* or the seed it returns (seed_id and created left out), in a process     *)
(* whose hash seed gives the root node ids the order `order'               *)
MixPersonalities(combinations, custom_goal, order) ==
    IF WeightsRejected(combinations)
        THEN Raised("ValueError", "mix_personalities")
    ELSE IF Falsy(custom_goal)
            /\ \E i \in 1..Len(combinations) : LookupFails(combinations[i][1])
        THEN Raised("KeyError", "_generate_mixed_goal")
    ELSE IF LookupFails(Dominant(combinations)[1])
        THEN Raised("KeyError", "_generate_mixed_persona_style")
    ELSE IF \E i \in 1..Len(combinations) : LookupFails(combinations[i][1])
        THEN Raised("KeyError", "mix_personalities")
    ELSE [ status |-> "returned",
           goal_statement |-> IF Falsy(custom_goal)
                              THEN GenerateMixedGoal(combinations)
                              ELSE << custom_goal >>,
           persona_style |-> GenerateMixedPersonaStyle(combinations),
           core_vector_default |->
               MixedVector(combinations, "core_vector_default", CoreKeys),
           personality_vector |->
               MixedVector(combinations, "personality_vector", PersonalityKeys),
           root_nodes |-> RootNodes(combinations, order),
           mix_components |-> combinations,
           examples |-> GenerateMixedExamples(combinations) ]

(* Inputs of mix_personalities.  No sum of these weights is exactly 0.99   *)
(* or 1.01, where the outcome of the float comparison depends on the       *)
(* rounding of the sum.                                                    *)
MixNames == Foundations \cup { "pirate" }

MixWeights == { 200, 300, 400, 500, 504, 512, 600, 800 }

Components == MixNames \X MixWeights

RECURSIVE Lists(_, _)
Lists(S, n) ==
    IF n = 0 THEN { <<>> }
    ELSE LET shorter == Lists(S, n - 1)
         IN shorter \cup { Append(l, x) : l \in { k \in shorter : Len(k) = n - 1 }, x \in S }

CombinationInputs == Lists(Components, MaxComponents)

GoalInputs == { NoGoal, "Research topics thoroughly." }

NoRequest == [ combinations |-> <<>>, custom_goal |-> NoGoal ]

NotCalled == [ status |-> "not called" ]

----------------------------------------------------------------------------
(* The record of the last call: its name, arguments and returned value *)

NoCall ==
    [ name |-> "init", query_type |-> NoType, anchor_context |-> EmptyContext,
      limit |-> 0, id |-> -1, results |-> <<>> ]

NoScenario == [ step |-> 0, start |-> 0 ]

(* no action id: the None of decide_action *)
NoAction == "None"

(* no diagnostics read *)
NoView == [ chaos_proximity |-> 0, velocity_magnitude |-> 0, stability_trend |-> "stable" ]

(* The record of the last step of the controllers: its name, the           *)
(* controller, and for a cycle the diagnostics it read at its start,       *)
(* whether an exception left it, whether the strategy was consulted, what  *)
(* it proposed, whether that was executed and whether its execution       *)
(* returned an error result                                                *)
NoEvent ==
    [ name |-> "init", agent |-> "None", view |-> NoView, raised |-> FALSE, decided |-> FALSE,
      proposal |-> NoAction, executed |-> FALSE, failed |-> FALSE ]

(* AgentManager() before a controller is added *)
NoManager == [ agents |-> <<>>, is_running |-> FALSE ]

(* no load_from_file() has been called *)
NotLoaded == [ status |-> "not loaded" ]

SessionIds == { "default", "alice" }

(* a key that Redis does not hold: get returns None *)
NoKey == -1

(* Redis with no key: for every session id, whether the key of the session *)
(* state exists, and the value of its last-accessed key                    *)
NoRedis ==
    [ session |-> [ sid \in SessionIds |-> FALSE ],
      last_accessed |-> [ sid \in SessionIds |-> NoKey ] ]

(* no pass of cleanup_abandoned_sessions() is under way *)
NoPass == [ pc |-> "idle", cutoff_time |-> 0, keys |-> <<>> ]

(* no request is being handled *)
NoRequestHandled == [ pc |-> "idle", sid |-> "None", route |-> "None" ]

(* EnhancedMemorySystem(): an empty store *)
Init ==
    /\ now = 0
    /\ memories = <<>>
    /\ memory_clusters = [ t \in {} |-> <<>> ]
    /\ stored = 0
    /\ retrieved = 0
    /\ call = NoCall
    /\ callers = <<>>
    /\ scenario = NoScenario
    /\ mix_request = NoRequest
    /\ mix_outcome = NotCalled
    /\ mix_previous = NotCalled
    /\ hash_seed = Unseeded
    /\ clock = 0
    /\ agents = <<>>
    /\ sessions = <<>>
    /\ manager = NoManager
    /\ tasks = <<>>
    /\ event = NoEvent
    /\ loaded = NotLoaded
    /\ redis = NoRedis
    /\ cleanup_pass = NoPass
    /\ request = NoRequestHandled

(* Time passes. *)
Tick ==
    /\ UNCHANGED <<callers, scenario, mixvars, agentvars, persistvars>>
    /\ now < MaxNow
    /\ now' = now + 1
    /\ call' = [ NoCall EXCEPT !.name = "tick" ]
    /\ UNCHANGED <<memories, memory_clusters, stored, retrieved>>

(* store_memory(content, memory_type, importance, anchor_context); the     *)
(* content of the n-th call is n, so that every call stores a new text.    *)
StoreMemory(memory_type, importance, anchor_context) ==
    /\ LET node == NewNode(stored + 1, memory_type, importance, anchor_context, now)
           mems1 == DictSet(memories, node)
           clusters1 == ClusterAppend(memory_clusters, memory_type, node.id)
           after == IF Len(mems1) > max_memories
                    THEN CleanupWeakMemories(mems1, clusters1, now)
                    ELSE <<mems1, clusters1>>
       IN /\ memories' = after[1]
          /\ memory_clusters' = after[2]
          /\ call' = [ NoCall EXCEPT !.name = "store", !.id = node.id ]
    /\ stored' = stored + 1
    /\ UNCHANGED <<now, retrieved>>

(* the nodes after retrieve_memories(query_type, anchor_context, limit):   *)
(* the selected ones reinforced                                            *)
RetrieveMemoriesResult(query_type, anchor_context, limit) ==
    LET top == Selected(memories, query_type, anchor_context, limit, now)
        hit == { top[r].idx : r \in 1..Len(top) }
    IN [ i \in 1..Len(memories) |->
           IF i \in hit THEN Access(memories[i], now) ELSE memories[i] ]

(* retrieve_memories(query_type, anchor_context, limit) *)
RetrieveMemories(query_type, anchor_context, limit) ==
    LET top == Selected(memories, query_type, anchor_context, limit, now)
    IN /\ memories' = RetrieveMemoriesResult(query_type, anchor_context, limit)
       /\ call' = [ NoCall EXCEPT
                      !.name = "retrieve", !.query_type = query_type,
                      !.anchor_context = anchor_context, !.limit = limit,
                      !.results = [ r \in 1..Len(top) |->
                                      [ dict |-> ToDict(Access(memories[top[r].idx], now), now),
                                        relevance_score |-> top[r].score ] ] ]
       /\ retrieved' = retrieved + 1
       /\ UNCHANGED <<now, memory_clusters, stored>>

(* _cleanup_weak_memories() *)
CleanupCall ==
    /\ LET after == CleanupWeakMemories(memories, memory_clusters, now)
       IN /\ memories' = after[1]
          /\ memory_clusters' = after[2]
    /\ call' = [ NoCall EXCEPT !.name = "cleanup" ]
    /\ UNCHANGED <<now, stored, retrieved>>

Store ==
    /\ stored < MaxStores
    /\ \E inp \in StoreInputs : StoreMemory(inp[1], inp[2], inp[3])
    /\ UNCHANGED <<callers, scenario, mixvars, agentvars, persistvars>>

Retrieve ==
    /\ retrieved < MaxRetrieves
    /\ \E q \in QueryTypes, ctx \in QueryContexts, limit \in Limits :
           RetrieveMemories(q, ctx, limit)
    /\ UNCHANGED <<callers, scenario, mixvars, agentvars, persistvars>>

Cleanup == CleanupCall /\ UNCHANGED <<callers, scenario, mixvars, agentvars, persistvars>>

Next == Tick \/ Store \/ Retrieve \/ Cleanup

Spec == Init /\ [][Next]_vars

----------------------------------------------------------------------------
(* The retrieval scenario: memories of type crisis, interaction,           *)
(* interaction with importance 0.9, 0.5, 0.5 are stored into an empty      *)
(* store, then retrieve("crisis", limit = 10) is called.  scenario.step    *)
(* counts the calls made and scenario.start is the clock reading T of the  *)
(* first one; the clock may or may not advance between the calls.          *)

ScenarioContexts == { EmptyContext, ContextA, ContextB }

ScenarioInit ==
    /\ now \in 0..MaxNow
    /\ memories = <<>>
    /\ memory_clusters = [ t \in {} |-> <<>> ]
    /\ stored = 0
    /\ retrieved = 0
    /\ call = NoCall
    /\ callers = <<>>
    /\ scenario = [ step |-> 0, start |-> now ]
    /\ mix_request = NoRequest
    /\ mix_outcome = NotCalled
    /\ mix_previous = NotCalled
    /\ hash_seed = Unseeded
    /\ clock = 0
    /\ agents = <<>>
    /\ sessions = <<>>
    /\ manager = NoManager
    /\ tasks = <<>>
    /\ event = NoEvent
    /\ loaded = NotLoaded
    /\ redis = NoRedis
    /\ cleanup_pass = NoPass
    /\ request = NoRequestHandled

ScenarioStoreCrisis ==
    /\ scenario.step = 0
    /\ \E ctx \in ScenarioContexts : StoreMemory("crisis", 90, ctx)
    /\ scenario' = [ scenario EXCEPT !.step = 1 ]
    /\ UNCHANGED <<callers, mixvars, agentvars, persistvars>>

ScenarioStoreInteraction ==
    /\ scenario.step \in {1, 2}
    /\ \E ctx \in ScenarioContexts : StoreMemory("interaction", 50, ctx)
    /\ scenario' = [ scenario EXCEPT !.step = @ + 1 ]
    /\ UNCHANGED <<callers, mixvars, agentvars, persistvars>>

ScenarioRetrieve ==
    /\ scenario.step = 3
    /\ \E ctx \in QueryContexts : RetrieveMemories("crisis", ctx, 10)
    /\ scenario' = [ scenario EXCEPT !.step = 4 ]
    /\ UNCHANGED <<callers, mixvars, agentvars, persistvars>>

ScenarioTick ==
    /\ scenario.step \in 1..3
    /\ now < MaxNow
    /\ now' = now + 1
    /\ UNCHANGED <<memories, memory_clusters, stored, retrieved, call, callers, scenario,
                   mixvars, agentvars, persistvars>>

ScenarioNext ==
    ScenarioStoreCrisis \/ ScenarioStoreInteraction \/ ScenarioRetrieve \/ ScenarioTick

ScenarioSpec == ScenarioInit /\ [][ScenarioNext]_vars

----------------------------------------------------------------------------
(* One store used by several threads.  store_memory and retrieve_memories  *)
(* take no lock; a thread may be switched out while the first loop of      *)
(* retrieve_memories iterates over self.memories.items().  callers[c] is   *)
(* where thread c stands: idle, iterating (with the number of entries the  *)
(* dict held when the iteration began) or raised (the RuntimeError         *)
(* "dictionary changed size during iteration" left retrieve_memories).     *)
(* The rest of a call runs without a switch.                               *)

Callers == 1..MaxCallers

SharedInit ==
    /\ now = 0
    /\ memories = <<>>
    /\ memory_clusters = [ t \in {} |-> <<>> ]
    /\ stored = 0
    /\ retrieved = 0
    /\ call = NoCall
    /\ callers = [ c \in Callers |-> [ pc |-> "idle", size |-> 0 ] ]
    /\ scenario = NoScenario
    /\ mix_request = NoRequest
    /\ mix_outcome = NotCalled
    /\ mix_previous = NotCalled
    /\ hash_seed = Unseeded
    /\ clock = 0
    /\ agents = <<>>
    /\ sessions = <<>>
    /\ manager = NoManager
    /\ tasks = <<>>
    /\ event = NoEvent
    /\ loaded = NotLoaded
    /\ redis = NoRedis
    /\ cleanup_pass = NoPass
    /\ request = NoRequestHandled

SharedTick ==
    /\ now < MaxNow
    /\ now' = now + 1
    /\ call' = [ NoCall EXCEPT !.name = "tick" ]
    /\ UNCHANGED <<memories, memory_clusters, stored, retrieved>>
    /\ UNCHANGED <<callers, scenario, mixvars, agentvars, persistvars>>

(* a thread calls store_memory *)
SharedStore ==
    /\ stored < MaxStores
    /\ \E c \in Callers : callers[c].pc = "idle"
    /\ \E inp \in StoreInputs : StoreMemory(inp[1], inp[2], inp[3])
    /\ UNCHANGED <<callers, scenario, mixvars, agentvars, persistvars>>

(* a thread calls retrieve_memories and is switched out inside the first   *)
(* loop, the iterator over the dict having returned an entry               *)
SharedIterate ==
    /\ retrieved < MaxRetrieves + 1
    /\ memories # <<>>
    /\ \E c \in Callers :
           /\ callers[c].pc = "idle"
           /\ callers' = [ callers EXCEPT ![c] = [ pc |-> "iterating",
                                                   size |-> Len(memories) ] ]
    /\ call' = [ NoCall EXCEPT !.name = "iterate" ]
    /\ retrieved' = retrieved + 1
    /\ UNCHANGED <<now, memories, memory_clusters, stored>>
    /\ UNCHANGED <<scenario, mixvars, agentvars, persistvars>>

(* the thread runs again: the iterator raises if the dict holds another    *)
(* number of entries than when the iteration began; otherwise the call     *)
(* goes on to its end                                                      *)
SharedRetrieve ==
    /\ \E c \in Callers :
           /\ callers[c].pc = "iterating"
           /\ IF callers[c].size # Len(memories)
              THEN /\ callers' = [ callers EXCEPT ![c].pc = "raised" ]
                   /\ call' = [ NoCall EXCEPT !.name = "raise" ]
                   /\ UNCHANGED <<now, memories, memory_clusters, stored, retrieved>>
              ELSE /\ callers' = [ callers EXCEPT ![c].pc = "idle" ]
                   /\ \E q \in QueryTypes, ctx \in QueryContexts, limit \in Limits :
                          /\ memories' = RetrieveMemoriesResult(q, ctx, limit)
                          /\ call' = [ NoCall EXCEPT !.name = "retrieve",
                                                     !.query_type = q,
                                                     !.anchor_context = ctx,
                                                     !.limit = limit ]
                   /\ UNCHANGED <<now, memory_clusters, stored, retrieved>>
    /\ UNCHANGED <<scenario, mixvars, agentvars, persistvars>>

SharedNext == SharedTick \/ SharedStore \/ SharedIterate \/ SharedRetrieve

SharedSpec == SharedInit /\ [][SharedNext]_vars

----------------------------------------------------------------------------
(* One node, created with an importance and a type drawn from the inputs,  *)
(* and accessed up to MaxAccesses times while time passes.  The initial    *)
(* importances are the even hundredths of [0,1].                           *)

AccessImportances == { v \in 0..100 : v % 2 = 0 }

AccessInit ==
    /\ now = 0
    /\ \E memory_type \in MemoryTypes, importance \in AccessImportances :
           memories = << NewNode(1, memory_type, importance, EmptyContext, 0) >>
    /\ memory_clusters = [ t \in {} |-> <<>> ]
    /\ stored = 1
    /\ retrieved = 0
    /\ call = NoCall
    /\ callers = <<>>
    /\ scenario = NoScenario
    /\ mix_request = NoRequest
    /\ mix_outcome = NotCalled
    /\ mix_previous = NotCalled
    /\ hash_seed = Unseeded
    /\ clock = 0
    /\ agents = <<>>
    /\ sessions = <<>>
    /\ manager = NoManager
    /\ tasks = <<>>
    /\ event = NoEvent
    /\ loaded = NotLoaded
    /\ redis = NoRedis
    /\ cleanup_pass = NoPass
    /\ request = NoRequestHandled

(* node.access() *)
AccessNode ==
    /\ retrieved < MaxAccesses
    /\ memories' = [ memories EXCEPT ![1] = Access(@, now) ]
    /\ retrieved' = retrieved + 1
    /\ call' = [ NoCall EXCEPT !.name = "access" ]
    /\ UNCHANGED <<now, memory_clusters, stored>>
    /\ UNCHANGED <<callers, scenario, mixvars, agentvars, persistvars>>

AccessNext == Tick \/ AccessNode

AccessSpec == AccessInit /\ [][AccessNext]_vars

----------------------------------------------------------------------------
(* One call of mix_personalities on a request drawn from the inputs *)

MixInit ==
    /\ now = 0
    /\ memories = <<>>
    /\ memory_clusters = [ t \in {} |-> <<>> ]
    /\ stored = 0
    /\ retrieved = 0
    /\ call = NoCall
    /\ callers = <<>>
    /\ scenario = NoScenario
    /\ mix_request \in [ combinations : CombinationInputs, custom_goal : GoalInputs ]
    /\ mix_outcome = NotCalled
    /\ mix_previous = NotCalled
    /\ hash_seed = Unseeded
    /\ clock = 0
    /\ agents = <<>>
    /\ sessions = <<>>
    /\ manager = NoManager
    /\ tasks = <<>>
    /\ event = NoEvent
    /\ loaded = NotLoaded
    /\ redis = NoRedis
    /\ cleanup_pass = NoPass
    /\ request = NoRequestHandled

(* the call is made in a process of any hash seed *)
Mix ==
    /\ mix_outcome = NotCalled
    /\ \E order \in HashSeeds :
           mix_outcome' = MixPersonalities(mix_request.combinations,
                                           mix_request.custom_goal, order)
    /\ UNCHANGED <<memvars, persistvars, scenario, agentvars, mix_request, mix_previous, hash_seed>>

MixNext == Mix

MixSpec == MixInit /\ [][MixNext]_vars

----------------------------------------------------------------------------
(* One call of mix_personalities on components that the catalog holds data *)
(* for, with weights on both sides of the thresholds 0.2 and 0.3 of the    *)
(* goal statement and the persona style.                                   *)

TextNames == { "scientist", "artist", "skeptic" }

TextWeights == { 200, 201, 300, 301, 400, 500, 699, 700, 799, 800 }

TextInputs == Lists(TextNames \X TextWeights, MaxComponents)

TextInit ==
    /\ now = 0
    /\ memories = <<>>
    /\ memory_clusters = [ t \in {} |-> <<>> ]
    /\ stored = 0
    /\ retrieved = 0
    /\ call = NoCall
    /\ callers = <<>>
    /\ scenario = NoScenario
    /\ mix_request \in [ combinations : TextInputs, custom_goal : GoalInputs ]
    /\ mix_outcome = NotCalled
    /\ mix_previous = NotCalled
    /\ hash_seed = Unseeded
    /\ clock = 0
    /\ agents = <<>>
    /\ sessions = <<>>
    /\ manager = NoManager
    /\ tasks = <<>>
    /\ event = NoEvent
    /\ loaded = NotLoaded
    /\ redis = NoRedis
    /\ cleanup_pass = NoPass
    /\ request = NoRequestHandled

TextSpec == TextInit /\ [][MixNext]_vars

----------------------------------------------------------------------------
(* The same request mixed twice.  The catalog is built in the constructor  *)
(* from literals, so it is the same in every process; the two calls are    *)
(* made by one process or, the service having been restarted between       *)
(* them, by two.                                                           *)

RemixNames == { "scientist", "artist", "pirate" }

RemixWeights == { 500, 504 }

RemixInputs == Lists(RemixNames \X RemixWeights, MaxComponents)

RemixInit ==
    /\ now = 0
    /\ memories = <<>>
    /\ memory_clusters = [ t \in {} |-> <<>> ]
    /\ stored = 0
    /\ retrieved = 0
    /\ call = NoCall
    /\ callers = <<>>
    /\ scenario = NoScenario
    /\ mix_request \in [ combinations : RemixInputs, custom_goal : GoalInputs ]
    /\ mix_outcome = NotCalled
    /\ mix_previous = NotCalled
    /\ hash_seed \in HashSeeds
    /\ clock = 0
    /\ agents = <<>>
    /\ sessions = <<>>
    /\ manager = NoManager
    /\ tasks = <<>>
    /\ event = NoEvent
    /\ loaded = NotLoaded
    /\ redis = NoRedis
    /\ cleanup_pass = NoPass
    /\ request = NoRequestHandled

(* the first call *)
RemixFirst ==
    /\ mix_outcome = NotCalled
    /\ mix_outcome' = MixPersonalities(mix_request.combinations,
                                       mix_request.custom_goal, hash_seed)
    /\ UNCHANGED <<memvars, persistvars, scenario, agentvars, mix_request, mix_previous, hash_seed>>

(* the second call, with the arguments of the first *)
RemixSecond ==
    /\ mix_outcome # NotCalled
    /\ mix_previous = NotCalled
    /\ mix_previous' = mix_outcome
    /\ mix_outcome' = MixPersonalities(mix_request.combinations,
                                       mix_request.custom_goal, hash_seed)
    /\ UNCHANGED <<memvars, persistvars, scenario, agentvars, mix_request, hash_seed>>

(* the process is restarted: PersonalityMixer() is constructed again and   *)
(* the interpreter draws a new hash seed                                   *)
RemixRestart ==
    /\ mix_outcome # NotCalled
    /\ mix_previous = NotCalled
    /\ hash_seed' \in HashSeeds
    /\ UNCHANGED <<memvars, persistvars, scenario, agentvars, mix_request, mix_outcome, mix_previous>>

RemixNext == RemixFirst \/ RemixSecond \/ RemixRestart

RemixSpec == RemixInit /\ [][RemixNext]_vars

----------------------------------------------------------------------------
(* One request mixed by one process with the custom goal it supplies and   *)
(* without any: mix_outcome is the result of the first call, mix_previous  *)
(* that of the second.  The calls are made in either order.                *)

SuppliedGoals == { "", "Research topics thoroughly." }

CustomInit ==
    /\ now = 0
    /\ memories = <<>>
    /\ memory_clusters = [ t \in {} |-> <<>> ]
    /\ stored = 0
    /\ retrieved = 0
    /\ call = NoCall
    /\ callers = <<>>
    /\ scenario = NoScenario
    /\ mix_request \in [ combinations : RemixInputs, custom_goal : SuppliedGoals ]
    /\ mix_outcome = NotCalled
    /\ mix_previous = NotCalled
    /\ hash_seed \in HashSeeds
    /\ clock = 0
    /\ agents = <<>>
    /\ sessions = <<>>
    /\ manager = NoManager
    /\ tasks = <<>>
    /\ event = NoEvent
    /\ loaded = NotLoaded
    /\ redis = NoRedis
    /\ cleanup_pass = NoPass
    /\ request = NoRequestHandled

(* mix_personalities(combinations, custom_goal) *)
MixCustom ==
    /\ mix_outcome = NotCalled
    /\ mix_outcome' = MixPersonalities(mix_request.combinations,
                                       mix_request.custom_goal, hash_seed)
    /\ UNCHANGED <<memvars, persistvars, scenario, agentvars, mix_request, mix_previous, hash_seed>>

(* mix_personalities(combinations) *)
MixPlain ==
    /\ mix_previous = NotCalled
    /\ mix_previous' = MixPersonalities(mix_request.combinations, NoGoal, hash_seed)
    /\ UNCHANGED <<memvars, persistvars, scenario, agentvars, mix_request, mix_outcome, hash_seed>>

CustomNext == MixCustom \/ MixPlain

CustomSpec == CustomInit /\ [][CustomNext]_vars

----------------------------------------------------------------------------
(* AutonomousAgent (autonomous_agent_integration.py)                       *)
(*                                                                         *)
(* Numbers.  Times are counted in units of five seconds, which every       *)
(* duration of the code is a multiple of but for the crisis cadence        *)
(* (0.3 x 10 s), which is compared exactly; energy, anchor values and the  *)
(* diagnostics of the session are in hundredths.                           *)

AgentStates == { "idle", "thinking", "acting", "learning", "crisis" }

ActionIds == { "observe", "reflect", "stabilize", "emergency_recalibrate" }

(* _setup_default_actions: the fields of the four actions that do not      *)
(* change; last_executed is kept per controller                            *)
AvailableActions ==
    [ observe |->
        [ name |-> "Observe Environment", priority |-> 1,
          anchor_requirements |-> [ Choice |-> 30 ],
          anchor_effects |-> [ Safety |-> 5, Time |-> 2 ],
          cooldown |-> 1, energy_cost |-> 5 ],
      reflect |->
        [ name |-> "Reflect on State", priority |-> 2,
          anchor_requirements |-> [ Time |-> 40 ],
          anchor_effects |-> [ Safety |-> 10, Choice |-> 5 ],
          cooldown |-> 6, energy_cost |-> 10 ],
      stabilize |->
        [ name |-> "Stabilize Anchors", priority |-> 3,
          anchor_requirements |-> [ Choice |-> 50 ],
          anchor_effects |-> [ Fear |-> -10, Safety |-> 15 ],
          cooldown |-> 12, energy_cost |-> 20 ],
      emergency_recalibrate |->
        [ name |-> "Emergency Recalibration", priority |-> 4,
          anchor_requirements |-> [ Choice |-> 20 ],
          anchor_effects |-> [ Fear |-> -20, Safety |-> 20, Choice |-> 10 ],
          cooldown |-> 60, energy_cost |-> 40 ] ]

decision_frequency == 2

Backoff == 1

FullEnergy == 100

(* dict.get(key, 0) *)
GetOr0(dict, key) == IF key \in DOMAIN dict THEN dict[key] ELSE 0

(* AutonomousAgent.__init__ at time t *)
NewAgent(kind, t) ==
    [ kind |-> kind,
      state |-> "idle",
      energy |-> FullEnergy,
      last_decision_time |-> t,
      is_running |-> FALSE,
      last_executed |-> [ id \in ActionIds |-> 0 ],
      action_history |-> <<>>,
      learning_data |-> <<>> ]

(* _can_execute_action with the energy test left out *)
CanExecuteActionNoEnergy(agent, session, id, t) ==
    LET action == AvailableActions[id]
    IN /\ ~(t - agent.last_executed[id] < action.cooldown)
       /\ \A anchor \in DOMAIN action.anchor_requirements :
              ~(GetOr0(session.core, anchor) < action.anchor_requirements[anchor])

(* _can_execute_action with the cooldown test left out *)
CanExecuteActionNoCooldown(agent, session, id, t) ==
    LET action == AvailableActions[id]
    IN /\ ~(agent.energy < action.energy_cost)
       /\ \A anchor \in DOMAIN action.anchor_requirements :
              ~(GetOr0(session.core, anchor) < action.anchor_requirements[anchor])

(* _can_execute_action(action) at time t *)
CanExecuteAction(agent, session, id, t) ==
    LET action == AvailableActions[id]
    IN /\ ~(t - agent.last_executed[id] < action.cooldown)
       /\ ~(agent.energy < action.energy_cost)
       /\ \A anchor \in DOMAIN action.anchor_requirements :
              ~(GetOr0(session.core, anchor) < action.anchor_requirements[anchor])

(* _update_agent_state that leaves a crisis only through idle *)
UpdateAgentStateSticky(agent, session, view, t) ==
    IF agent.state = "crisis" \/ view.chaos_proximity > 80 THEN "crisis"
    ELSE IF view.velocity_magnitude > 30 THEN "thinking"
    ELSE IF \E id \in ActionIds : CanExecuteAction(agent, session, id, t) THEN "acting"
    ELSE "idle"

(* _update_agent_state at time t, export_view() returning view: the new    *)
(* state tag                                                               *)
UpdateAgentState(agent, session, view, t) ==
    IF view.chaos_proximity > 80 THEN "crisis"
    ELSE IF view.velocity_magnitude > 30 THEN "thinking"
    ELSE IF \E id \in ActionIds : CanExecuteAction(agent, session, id, t) THEN "acting"
    ELSE "idle"

(* _regenerate_energy: the new energy *)
RegenerateEnergy(agent) ==
    IF agent.energy < FullEnergy
    THEN Min(FullEnergy, agent.energy + (IF agent.state = "idle" THEN 5 ELSE 2))
    ELSE agent.energy

(* _should_make_decision deciding at once in Crisis *)
ShouldMakeDecisionEager(agent, t) ==
    LET time_since_last == t - agent.last_decision_time
    IN IF agent.state = "crisis"
       THEN TRUE
       ELSE time_since_last > decision_frequency

(* _should_make_decision *)
ShouldMakeDecision(agent, t) ==
    LET time_since_last == t - agent.last_decision_time
    IN IF agent.state = "crisis"
       THEN 10 * time_since_last > 3 * decision_frequency
       ELSE time_since_last > decision_frequency

(* ScientistAgent.decide_action *)
ScientistDecideAction(agent, session, view, t) ==
    IF agent.state = "crisis"
       /\ CanExecuteAction(agent, session, "emergency_recalibrate", t)
        THEN "emergency_recalibrate"
    ELSE IF view.chaos_proximity > 50
            /\ CanExecuteAction(agent, session, "observe", t)
        THEN "observe"
    ELSE IF view.stability_trend # "improving"
            /\ CanExecuteAction(agent, session, "reflect", t)
        THEN "reflect"
    ELSE IF CanExecuteAction(agent, session, "observe", t)
        THEN "observe"
    ELSE NoAction

(* ArtistAgent.decide_action *)
ArtistDecideAction(agent, session, view, t) ==
    IF agent.state = "crisis"
        THEN IF view.chaos_proximity > 90
             THEN "emergency_recalibrate" ELSE "observe"
    ELSE IF 30 < view.chaos_proximity /\ view.chaos_proximity < 70
        THEN "observe"
    ELSE IF view.chaos_proximity < 20
        THEN "reflect"
    ELSE "observe"

DecideAction(agent, session, view, t) ==
    IF agent.kind = "scientist" THEN ScientistDecideAction(agent, session, view, t)
    ELSE ArtistDecideAction(agent, session, view, t)

(* ScientistAgent.execute_action, ArtistAgent.execute_action: the first    *)
(* key of the dict they return stands for the dict                         *)
ExecuteAction(kind, id) ==
    IF kind = "scientist"
    THEN CASE id = "observe"   -> [ first_key |-> "observation" ]
           [] id = "reflect"   -> [ first_key |-> "analysis" ]
           [] id = "stabilize" -> [ first_key |-> "method" ]
           [] OTHER            -> [ first_key |-> "status" ]
    ELSE CASE id = "observe"   -> [ first_key |-> "inspiration" ]
           [] id = "reflect"   -> [ first_key |-> "contemplation" ]
           [] OTHER            -> [ first_key |-> "creative_response" ]

(* the dict _execute_action_safely returns from its except clause *)
ErrorResult(id) == [ first_key |-> "error" ]

(* "error" not in result *)
ResultSuccess(result) == result.first_key # "error"

(* The anchor session of a controller: its core vector.  The diagnostics   *)
(* export_view() reports (chaos_proximity, velocity_magnitude,             *)
(* stability_trend) are computed by the session from data the controller   *)
(* does not hold: each read is an input of the cycle that makes it.        *)
NewSession(core) == [ core |-> core ]

Clamp(x) == IF x < 0 THEN 0 ELSE IF x > 100 THEN 100 ELSE x

(* anchor_session.tick(effects): the deltas are added to the dimensions    *)
(* they name, each clamped to [0,1]                                        *)
SessionTick(session, effects) ==
    [ core |-> [ dim \in DOMAIN session.core |->
                   IF dim \in DOMAIN effects
                   THEN Clamp(session.core[dim] + effects[dim])
                   ELSE session.core[dim] ] ]

(* What goes wrong in a cycle: nothing; export_view() raises in            *)
(* _update_agent_state, in decide_action or in _learn_from_action; tick()  *)
(* raises before or after it has changed the core vector                   *)
Faults == { "none", "read", "strategy", "learn", "tick_before", "tick_after" }

learning_cap == 100

learning_keep == 50

(* seq[-n:] *)
LastN(seq, n) ==
    IF Len(seq) <= n THEN seq ELSE SubSeq(seq, Len(seq) - n + 1, Len(seq))

(* the truncation of _learn_from_action with the two numbers exchanged *)
TruncateLearningSwapped(data) ==
    IF Len(data) > learning_keep THEN LastN(data, learning_cap) ELSE data

(* if len(self.learning_data) > 100: self.learning_data = [-50:] *)
TruncateLearning(data) ==
    IF Len(data) > learning_cap THEN LastN(data, learning_keep) ELSE data

(* _learn_from_action(action, result) at time t, export_view() returning   *)
(* view_after: the new learning_data                                       *)
LearnFromAction(agent, view_after, id, result, t) ==
    LET learning_entry ==
            [ action |-> AvailableActions[id].name,
              timestamp |-> t,
              result_success |-> ResultSuccess(result),
              chaos_before |-> Len(agent.action_history) > 0,
              chaos_after |-> view_after.chaos_proximity > 70,
              stability_change |-> view_after.stability_trend,
              agent_state |-> agent.state ]
    IN TruncateLearning(Append(agent.learning_data, learning_entry))

(* _execute_action_safely that undoes what it has done when it catches an  *)
(* exception                                                               *)
ExecuteActionSafelyUndoing(agent, session, id, t, fault) ==
    IF fault \in { "tick_before", "tick_after" }
    THEN [ agent |-> agent, session |-> session, result |-> ErrorResult(id) ]
    ELSE LET action == AvailableActions[id]
             ticked == SessionTick(session, action.anchor_effects)
             result == ExecuteAction(agent.kind, id)
         IN [ agent |-> [ agent EXCEPT !.last_executed[id] = t,
                                       !.last_decision_time = t,
                                       !.energy = @ - action.energy_cost,
                                       !.action_history =
                                          Append(@, [ action |-> action.name,
                                                      timestamp |-> t,
                                                      result |-> result,
                                                      anchor_state_before |-> ticked.core ]) ],
              session |-> ticked,
              result |-> result ]

(* _execute_action_safely stamping every action of the controller as       *)
(* executed                                                                *)
ExecuteActionSafelyStampingAll(agent, session, id, t, fault) ==
    LET action == AvailableActions[id]
        charged == [ agent EXCEPT !.last_executed = [ other \in ActionIds |-> t ],
                                  !.last_decision_time = t,
                                  !.energy = @ - action.energy_cost ]
        result == ExecuteAction(agent.kind, id)
        ticked == SessionTick(session, action.anchor_effects)
    IN IF fault = "tick_before"
           THEN [ agent |-> charged, session |-> session, result |-> ErrorResult(id) ]
       ELSE IF fault = "tick_after"
           THEN [ agent |-> charged, session |-> ticked, result |-> ErrorResult(id) ]
       ELSE [ agent |-> [ charged EXCEPT !.action_history =
                            Append(@, [ action |-> action.name,
                                        timestamp |-> t,
                                        result |-> result,
                                        anchor_state_before |-> ticked.core ]) ],
              session |-> ticked,
              result |-> result ]

(* _execute_action_safely(action) at time t: the controller, the session   *)
(* and the result it returns                                               *)
ExecuteActionSafely(agent, session, id, t, fault) ==
    LET action == AvailableActions[id]
        charged == [ agent EXCEPT !.last_executed[id] = t,
                                  !.last_decision_time = t,
                                  !.energy = @ - action.energy_cost ]
        result == ExecuteAction(agent.kind, id)
        ticked == SessionTick(session, action.anchor_effects)
    IN IF fault = "tick_before"
           THEN [ agent |-> charged, session |-> session, result |-> ErrorResult(id) ]
       ELSE IF fault = "tick_after"
           THEN [ agent |-> charged, session |-> ticked, result |-> ErrorResult(id) ]
       ELSE [ agent |-> [ charged EXCEPT !.action_history =
                            Append(@, [ action |-> action.name,
                                        timestamp |-> t,
                                        result |-> result,
                                        anchor_state_before |-> ticked.core ]) ],
              session |-> ticked,
              result |-> result ]

(* What a cycle reports besides the new controller and session: whether    *)
(* an exception left it, whether the strategy was consulted, the action it *)
(* proposed (NoAction when it was not consulted or proposed none), whether *)
(* that was executed and whether its execution returned an error result    *)
CycleReport(agent, session, raised, decided, proposal, executed, failed) ==
    [ agent |-> agent, session |-> session, raised |-> raised,
      decided |-> decided, proposal |-> proposal, executed |-> executed,
      failed |-> failed ]

(* _autonomous_cycle with the energy regenerated before the state tag is   *)
(* recomputed                                                              *)
AutonomousCycleRegenFirst(agent, session, t, fault, view, view_after) ==
    LET early == [ agent EXCEPT !.energy = RegenerateEnergy(agent) ]
        rested == [ early EXCEPT !.state = UpdateAgentState(agent, session, view, t) ]
        chosen_action_id == DecideAction(rested, session, view, t)
        done == ExecuteActionSafely(rested, session, chosen_action_id, t, fault)
        learned == [ done.agent EXCEPT !.learning_data =
                       LearnFromAction(done.agent, view_after, chosen_action_id,
                                       done.result, t) ]
    IN IF fault = "read"
           THEN CycleReport(agent, session, TRUE, FALSE, NoAction, FALSE, FALSE)
       ELSE IF ~ShouldMakeDecision(rested, t)
           THEN CycleReport(rested, session, FALSE, FALSE, NoAction, FALSE, FALSE)
       ELSE IF fault = "strategy"
           THEN CycleReport(rested, session, TRUE, TRUE, NoAction, FALSE, FALSE)
       ELSE IF chosen_action_id = NoAction \/ chosen_action_id \notin ActionIds
           THEN CycleReport(rested, session, FALSE, TRUE, chosen_action_id, FALSE, FALSE)
       ELSE IF ~CanExecuteAction(rested, session, chosen_action_id, t)
           THEN CycleReport(rested, session, FALSE, TRUE, chosen_action_id, FALSE, FALSE)
       ELSE IF fault = "learn"
           THEN CycleReport(done.agent, done.session, TRUE, TRUE, chosen_action_id, TRUE,
                            ~ResultSuccess(done.result))
       ELSE CycleReport(learned, done.session, FALSE, TRUE, chosen_action_id, TRUE,
                            ~ResultSuccess(done.result))

(* _autonomous_cycle with the proposal executed unchecked *)
AutonomousCycleUnchecked(agent, session, t, fault, view, view_after) ==
    LET tagged == [ agent EXCEPT !.state = UpdateAgentState(agent, session, view, t) ]
        rested == [ tagged EXCEPT !.energy = RegenerateEnergy(tagged) ]
        chosen_action_id == DecideAction(rested, session, view, t)
        done == ExecuteActionSafely(rested, session, chosen_action_id, t, fault)
        learned == [ done.agent EXCEPT !.learning_data =
                       LearnFromAction(done.agent, view_after, chosen_action_id,
                                       done.result, t) ]
    IN IF fault = "read"
           THEN CycleReport(agent, session, TRUE, FALSE, NoAction, FALSE, FALSE)
       ELSE IF ~ShouldMakeDecision(rested, t)
           THEN CycleReport(rested, session, FALSE, FALSE, NoAction, FALSE, FALSE)
       ELSE IF fault = "strategy"
           THEN CycleReport(rested, session, TRUE, TRUE, NoAction, FALSE, FALSE)
       ELSE IF chosen_action_id = NoAction \/ chosen_action_id \notin ActionIds
           THEN CycleReport(rested, session, FALSE, TRUE, chosen_action_id, FALSE, FALSE)
       ELSE IF fault = "learn"
           THEN CycleReport(done.agent, done.session, TRUE, TRUE, chosen_action_id, TRUE,
                            ~ResultSuccess(done.result))
       ELSE CycleReport(learned, done.session, FALSE, TRUE, chosen_action_id, TRUE,
                            ~ResultSuccess(done.result))

(* _autonomous_cycle() at time t; export_view() returns view before the    *)
(* action is executed and view_after after it                              *)
AutonomousCycle(agent, session, t, fault, view, view_after) ==
    LET tagged == [ agent EXCEPT !.state = UpdateAgentState(agent, session, view, t) ]
        rested == [ tagged EXCEPT !.energy = RegenerateEnergy(tagged) ]
        chosen_action_id == DecideAction(rested, session, view, t)
        done == ExecuteActionSafely(rested, session, chosen_action_id, t, fault)
        learned == [ done.agent EXCEPT !.learning_data =
                       LearnFromAction(done.agent, view_after, chosen_action_id,
                                       done.result, t) ]
    IN IF fault = "read"
           THEN CycleReport(agent, session, TRUE, FALSE, NoAction, FALSE, FALSE)
       ELSE IF ~ShouldMakeDecision(rested, t)
           THEN CycleReport(rested, session, FALSE, FALSE, NoAction, FALSE, FALSE)
       ELSE IF fault = "strategy"
           THEN CycleReport(rested, session, TRUE, TRUE, NoAction, FALSE, FALSE)
       ELSE IF chosen_action_id = NoAction \/ chosen_action_id \notin ActionIds
           THEN CycleReport(rested, session, FALSE, TRUE, chosen_action_id, FALSE, FALSE)
       ELSE IF ~CanExecuteAction(rested, session, chosen_action_id, t)
           THEN CycleReport(rested, session, FALSE, TRUE, chosen_action_id, FALSE, FALSE)
       ELSE IF fault = "learn"
           THEN CycleReport(done.agent, done.session, TRUE, TRUE, chosen_action_id, TRUE,
                            ~ResultSuccess(done.result))
       ELSE CycleReport(learned, done.session, FALSE, TRUE, chosen_action_id, TRUE,
                            ~ResultSuccess(done.result))

(* Inputs: the core vectors a session starts with and the diagnostics it   *)
(* reports                                                                 *)
CoreInputs ==
    { [ Fear |-> 50, Safety |-> 50, Time |-> 50, Choice |-> 50 ],
      [ Fear |-> 90, Safety |-> 95, Time |-> 30, Choice |-> 25 ] }

ViewInputs ==
    { [ chaos_proximity |-> 10, velocity_magnitude |-> 30, stability_trend |-> "stable" ],
      [ chaos_proximity |-> 80, velocity_magnitude |-> 40, stability_trend |-> "improving" ],
      [ chaos_proximity |-> 85, velocity_magnitude |-> 40, stability_trend |-> "declining" ],
      [ chaos_proximity |-> 95, velocity_magnitude |-> 10, stability_trend |-> "declining" ] }

(* how long before start_all_agents() a controller was constructed *)
AgeInputs == { 0, 3 }

(* The controllers of demo_autonomous_agents: agent_id -> class, and the   *)
(* order they are added to the manager in                                  *)
AgentKinds == [ scientist_01 |-> "scientist", artist_01 |-> "artist" ]

AgentIds == DOMAIN AgentKinds

AddedAgents == << "scientist_01", "artist_01" >>

(* time.time() when the controllers are constructed: later than any        *)
(* cooldown after the last_executed = 0.0 the actions start with           *)
StartTime == AvailableActions["emergency_recalibrate"].cooldown

MaxClock == StartTime + MaxElapsed

(* What the loop of a task does next: "created" (not yet run), "sleeping"  *)
(* until wake_at, "exited"                                                 *)
NewTask(id) == [ agent |-> id, pc |-> "created", wake_at |-> 0 ]

(* The two controllers of demo_autonomous_agents, each on a session of its *)
(* own, and a manager one of them has been added to                        *)
AgentInit ==
    /\ now = 0
    /\ memories = <<>>
    /\ memory_clusters = [ t \in {} |-> <<>> ]
    /\ stored = 0
    /\ retrieved = 0
    /\ call = NoCall
    /\ callers = <<>>
    /\ scenario = NoScenario
    /\ mix_request = NoRequest
    /\ mix_outcome = NotCalled
    /\ mix_previous = NotCalled
    /\ hash_seed = Unseeded
    /\ clock = StartTime
    /\ \E age \in AgeInputs :
           agents = [ id \in AgentIds |-> NewAgent(AgentKinds[id], StartTime - age) ]
    /\ \E core \in CoreInputs : sessions = [ id \in AgentIds |-> NewSession(core) ]
    /\ \E id \in AgentIds : manager = [ agents |-> << id >>, is_running |-> FALSE ]
    /\ tasks = <<>>
    /\ event = NoEvent
    /\ loaded = NotLoaded
    /\ redis = NoRedis
    /\ cleanup_pass = NoPass
    /\ request = NoRequestHandled

(* Time passes. *)
Advance ==
    /\ clock < MaxClock
    /\ clock' = clock + 1
    /\ event' = NoEvent
    /\ UNCHANGED <<agents, sessions, manager, tasks>>
    /\ UNCHANGED <<memvars, persistvars, scenario, mixvars>>

(* AgentManager.start_all_agents() up to its await: a task is created for  *)
(* the loop of every controller                                            *)
StartAllAgents ==
    /\ tasks = <<>>
    /\ manager' = [ manager EXCEPT !.is_running = TRUE ]
    /\ tasks' = [ i \in 1..Len(manager.agents) |-> NewTask(manager.agents[i]) ]
    /\ event' = NoEvent
    /\ UNCHANGED <<clock, agents, sessions>>
    /\ UNCHANGED <<memvars, persistvars, scenario, mixvars>>

(* a turn of the loop over controllers that hold the same action objects:  *)
(* the last_executed stamps the cycle leaves are those of every controller *)
LoopTurnShared(i, agent, faults, views) ==
    LET id == tasks[i].agent
    IN IF ~agent.is_running
       THEN /\ tasks' = [ tasks EXCEPT ![i].pc = "exited" ]
            /\ agents' = [ agents EXCEPT ![id] = agent ]
            /\ sessions' = sessions
            /\ event' = [ NoEvent EXCEPT !.name = "exit", !.agent = id ]
       ELSE \E fault \in faults, view \in views, view_after \in views :
              LET cycle == AutonomousCycle(agent, sessions[id], clock, fault, view, view_after)
              IN /\ agents' = [ other \in AgentIds |->
                                  IF other = id THEN cycle.agent
                                  ELSE [ agents[other] EXCEPT
                                           !.last_executed = cycle.agent.last_executed ] ]
                 /\ sessions' = [ sessions EXCEPT ![id] = cycle.session ]
                 /\ tasks' = [ tasks EXCEPT
                                 ![i].pc = "sleeping",
                                 ![i].wake_at = clock + (IF cycle.raised THEN Backoff
                                                         ELSE decision_frequency) ]
                 /\ event' = [ name |-> "cycle", agent |-> id, view |-> view,
                               raised |-> cycle.raised,
                               decided |-> cycle.decided, proposal |-> cycle.proposal,
                               executed |-> cycle.executed, failed |-> cycle.failed ]

(* a turn of the loop in which an exception that leaves the cycle ends the *)
(* loop                                                                    *)
LoopTurnFatal(i, agent, faults, views) ==
    LET id == tasks[i].agent
    IN IF ~agent.is_running
       THEN /\ tasks' = [ tasks EXCEPT ![i].pc = "exited" ]
            /\ agents' = [ agents EXCEPT ![id] = agent ]
            /\ sessions' = sessions
            /\ event' = [ NoEvent EXCEPT !.name = "exit", !.agent = id ]
       ELSE \E fault \in faults, view \in views, view_after \in views :
              LET cycle == AutonomousCycle(agent, sessions[id], clock, fault, view, view_after)
              IN /\ agents' = [ agents EXCEPT ![id] = cycle.agent ]
                 /\ sessions' = [ sessions EXCEPT ![id] = cycle.session ]
                 /\ tasks' = [ tasks EXCEPT
                                 ![i].pc = IF cycle.raised THEN "exited" ELSE "sleeping",
                                 ![i].wake_at = clock + decision_frequency ]
                 /\ event' = [ name |-> "cycle", agent |-> id, view |-> view,
                               raised |-> cycle.raised,
                               decided |-> cycle.decided, proposal |-> cycle.proposal,
                               executed |-> cycle.executed, failed |-> cycle.failed ]

(* One turn of the loop of start_autonomous_loop, run by task i on the     *)
(* controller as it stands at the test of the while: the test, a cycle,    *)
(* and the sleep the loop then starts (the cadence, or the backoff of the  *)
(* except clause).  The cycle meets one of the faults and reads its        *)
(* diagnostics among the views.                                            *)
LoopTurn(i, agent, faults, views) ==
    LET id == tasks[i].agent
    IN IF ~agent.is_running
       THEN /\ tasks' = [ tasks EXCEPT ![i].pc = "exited" ]
            /\ agents' = [ agents EXCEPT ![id] = agent ]
            /\ sessions' = sessions
            /\ event' = [ NoEvent EXCEPT !.name = "exit", !.agent = id ]
       ELSE \E fault \in faults, view \in views, view_after \in views :
              LET cycle == AutonomousCycle(agent, sessions[id], clock, fault, view, view_after)
              IN /\ agents' = [ agents EXCEPT ![id] = cycle.agent ]
                 /\ sessions' = [ sessions EXCEPT ![id] = cycle.session ]
                 /\ tasks' = [ tasks EXCEPT
                                 ![i].pc = "sleeping",
                                 ![i].wake_at = clock + (IF cycle.raised THEN Backoff
                                                         ELSE decision_frequency) ]
                 /\ event' = [ name |-> "cycle", agent |-> id, view |-> view,
                               raised |-> cycle.raised,
                               decided |-> cycle.decided, proposal |-> cycle.proposal,
                               executed |-> cycle.executed, failed |-> cycle.failed ]

(* A created task runs for the first time: start_autonomous_loop sets      *)
(* is_running and enters the loop.                                         *)
LoopStart ==
    /\ \E i \in DOMAIN tasks :
           /\ tasks[i].pc = "created"
           /\ LoopTurn(i, [ agents[tasks[i].agent] EXCEPT !.is_running = TRUE ],
                       Faults, ViewInputs)
    /\ UNCHANGED <<clock, manager>>
    /\ UNCHANGED <<memvars, persistvars, scenario, mixvars>>

(* A sleep of a loop is over: the loop goes round. *)
LoopWake ==
    /\ \E i \in DOMAIN tasks :
           /\ tasks[i].pc = "sleeping"
           /\ clock >= tasks[i].wake_at
           /\ LoopTurn(i, agents[tasks[i].agent], Faults, ViewInputs)
    /\ UNCHANGED <<clock, manager>>
    /\ UNCHANGED <<memvars, persistvars, scenario, mixvars>>

(* stop_autonomous_loop() of one controller *)
StopAutonomousLoop ==
    /\ \E id \in AgentIds :
           /\ agents' = [ agents EXCEPT ![id].is_running = FALSE ]
           /\ event' = NoEvent
    /\ UNCHANGED <<clock, sessions, manager, tasks>>
    /\ UNCHANGED <<memvars, persistvars, scenario, mixvars>>

(* AgentManager.stop_all_agents() *)
StopAllAgents ==
    /\ agents' = [ id \in DOMAIN agents |->
                     IF \E k \in DOMAIN manager.agents : manager.agents[k] = id
                     THEN [ agents[id] EXCEPT !.is_running = FALSE ]
                     ELSE agents[id] ]
    /\ manager' = [ manager EXCEPT !.is_running = FALSE ]
    /\ event' = NoEvent
    /\ UNCHANGED <<clock, sessions, tasks>>
    /\ UNCHANGED <<memvars, persistvars, scenario, mixvars>>

AgentNext ==
    \/ Advance \/ StartAllAgents
    \/ LoopStart \/ LoopWake \/ StopAutonomousLoop \/ StopAllAgents

AgentSpec == AgentInit /\ [][AgentNext]_vars

----------------------------------------------------------------------------
(* The manager of demo_autonomous_agents with both controllers added.  No  *)
(* cycle meets a fault, and the sessions report one of two views.          *)

PairViews ==
    { view \in ViewInputs : view.chaos_proximity \in { 10, 85 } }

PairInit ==
    /\ now = 0
    /\ memories = <<>>
    /\ memory_clusters = [ t \in {} |-> <<>> ]
    /\ stored = 0
    /\ retrieved = 0
    /\ call = NoCall
    /\ callers = <<>>
    /\ scenario = NoScenario
    /\ mix_request = NoRequest
    /\ mix_outcome = NotCalled
    /\ mix_previous = NotCalled
    /\ hash_seed = Unseeded
    /\ clock = StartTime
    /\ \E age \in AgeInputs :
           agents = [ id \in AgentIds |-> NewAgent(AgentKinds[id], StartTime - age) ]
    /\ \E core \in CoreInputs : sessions = [ id \in AgentIds |-> NewSession(core) ]
    /\ manager = [ agents |-> AddedAgents, is_running |-> FALSE ]
    /\ tasks = <<>>
    /\ event = NoEvent
    /\ loaded = NotLoaded
    /\ redis = NoRedis
    /\ cleanup_pass = NoPass
    /\ request = NoRequestHandled

PairLoopStart ==
    /\ \E i \in DOMAIN tasks :
           /\ tasks[i].pc = "created"
           /\ LoopTurn(i, [ agents[tasks[i].agent] EXCEPT !.is_running = TRUE ],
                       { "none" }, PairViews)
    /\ UNCHANGED <<clock, manager>>
    /\ UNCHANGED <<memvars, persistvars, scenario, mixvars>>

PairLoopWake ==
    /\ \E i \in DOMAIN tasks :
           /\ tasks[i].pc = "sleeping"
           /\ clock >= tasks[i].wake_at
           /\ LoopTurn(i, agents[tasks[i].agent], { "none" }, PairViews)
    /\ UNCHANGED <<clock, manager>>
    /\ UNCHANGED <<memvars, persistvars, scenario, mixvars>>

PairNext ==
    \/ Advance \/ StartAllAgents
    \/ PairLoopStart \/ PairLoopWake \/ StopAutonomousLoop \/ StopAllAgents

PairSpec == PairInit /\ [][PairNext]_vars

----------------------------------------------------------------------------
(* demo_autonomous_agents: start_all_agents() runs under                   *)
(* asyncio.wait_for(..., timeout), and stop_all_agents() is called after.  *)

(* The deadline of wait_for passes: start_all_agents() is cancelled in its *)
(* gather, which cancels every loop task that is not done.  A task that    *)
(* never ran ends without running; a sleeping task receives CancelledError *)
(* in its sleep, which the "except Exception" of the loop does not catch.  *)
(* No statement of the loops or of start_all_agents() writes a flag.       *)
Deadline ==
    /\ \E i \in DOMAIN tasks : tasks[i].pc \in { "created", "sleeping" }
    /\ tasks' = [ i \in DOMAIN tasks |->
                    IF tasks[i].pc \in { "created", "sleeping" }
                    THEN [ tasks[i] EXCEPT !.pc = "cancelled" ]
                    ELSE tasks[i] ]
    /\ event' = [ NoEvent EXCEPT !.name = "deadline" ]
    /\ UNCHANGED <<clock, agents, sessions, manager>>
    /\ UNCHANGED <<memvars, persistvars, scenario, mixvars>>

DeadlineNext ==
    \/ Advance \/ StartAllAgents
    \/ PairLoopStart \/ PairLoopWake \/ Deadline \/ StopAllAgents

DeadlineSpec == PairInit /\ [][DeadlineNext]_vars

----------------------------------------------------------------------------
(* A long run of one controller: its session reports a chaos_proximity of  *)
(* 0.85 at every read, no cycle meets a fault, and its loop wakes when its *)
(* sleep ends, until the controller has executed MaxExecutions actions.    *)

LongRunViews == { view \in ViewInputs : view.chaos_proximity = 85 }

LongRunCore == [ Fear |-> 50, Safety |-> 50, Time |-> 50, Choice |-> 50 ]

LongRunInit ==
    /\ now = 0
    /\ memories = <<>>
    /\ memory_clusters = [ t \in {} |-> <<>> ]
    /\ stored = 0
    /\ retrieved = 0
    /\ call = NoCall
    /\ callers = <<>>
    /\ scenario = NoScenario
    /\ mix_request = NoRequest
    /\ mix_outcome = NotCalled
    /\ mix_previous = NotCalled
    /\ hash_seed = Unseeded
    /\ clock = StartTime
    /\ agents = [ id \in AgentIds |-> NewAgent(AgentKinds[id], StartTime) ]
    /\ sessions = [ id \in AgentIds |-> NewSession(LongRunCore) ]
    /\ \E id \in AgentIds : manager = [ agents |-> << id >>, is_running |-> FALSE ]
    /\ tasks = <<>>
    /\ event = NoEvent
    /\ loaded = NotLoaded
    /\ redis = NoRedis
    /\ cleanup_pass = NoPass
    /\ request = NoRequestHandled

LongRunStart ==
    /\ \E i \in DOMAIN tasks :
           /\ tasks[i].pc = "created"
           /\ LoopTurn(i, [ agents[tasks[i].agent] EXCEPT !.is_running = TRUE ],
                       { "none" }, LongRunViews)
    /\ UNCHANGED <<clock, manager>>
    /\ UNCHANGED <<memvars, persistvars, scenario, mixvars>>

(* the loop sleeps: time passes until its sleep ends *)
LongRunSleep ==
    /\ \E i \in DOMAIN tasks :
           /\ tasks[i].pc = "sleeping"
           /\ clock < tasks[i].wake_at
           /\ Len(agents[tasks[i].agent].action_history) < MaxExecutions
           /\ clock' = tasks[i].wake_at
    /\ event' = NoEvent
    /\ UNCHANGED <<agents, sessions, manager, tasks>>
    /\ UNCHANGED <<memvars, persistvars, scenario, mixvars>>

LongRunWake ==
    /\ \E i \in DOMAIN tasks :
           /\ tasks[i].pc = "sleeping"
           /\ clock >= tasks[i].wake_at
           /\ LoopTurn(i, agents[tasks[i].agent], { "none" }, LongRunViews)
    /\ UNCHANGED <<clock, manager>>
    /\ UNCHANGED <<memvars, persistvars, scenario, mixvars>>

LongRunNext == StartAllAgents \/ LongRunStart \/ LongRunSleep \/ LongRunWake

LongRunSpec == LongRunInit /\ [][LongRunNext]_vars

----------------------------------------------------------------------------
(* Properties of the memory store *)

Nodes(mems) == { mems[i] : i \in 1..Len(mems) }

NodeOf(mems, id) == mems[IndexOf(mems, id)]

ReturnedIds(c) == { c.results[r].dict.id : r \in 1..Len(c.results) }

(* C1: every node retrieve returns had, when the call was made, a current  *)
(* strength at or above cleanup_threshold: each returned id is a stored    *)
(* node whose strength before the call is not below the threshold.         *)
C1_RetrieveAboveThreshold ==
    [][ call'.name = "retrieve" =>
          \A id \in ReturnedIds(call') :
              /\ id \in Keys(memories)
              /\ GetCurrentStrength(NodeOf(memories, id), now) >= ThresholdNum ]_vars

(* a retrieve has returned something while a weak node was in the store *)
C1_Witness ==
    /\ call.name = "retrieve"
    /\ Len(call.results) > 0
    /\ \E n \in Nodes(memories) :
          n.id \notin ReturnedIds(call) /\ GetCurrentStrength(n, now) < ThresholdNum

(* C2: with no access in between, the current strength of a node does not  *)
(* grow as time advances: over every step that leaves a stored node's      *)
(* access count alone, its strength after is at most its strength before.  *)
C2_StrengthNonIncreasing ==
    [][ \A m \in Nodes(memories), n \in Nodes(memories') :
          (n.content = m.content /\ n.access_count = m.access_count)
             => GetCurrentStrength(n, now') <= GetCurrentStrength(m, now) ]_vars

(* all ids listed in the type index, with repetitions counted *)
ListedCount(clusters, id) ==
    LET per == [ t \in DOMAIN clusters |->
                   Cardinality({ j \in 1..Len(clusters[t]) : clusters[t][j] = id }) ]
    IN SumOver(per, DOMAIN clusters)

ListedIds(clusters) ==
    UNION { { clusters[t][j] : j \in 1..Len(clusters[t]) } : t \in DOMAIN clusters }

(* C3: the type index and the main mapping agree: every listed id is a key *)
(* of the mapping, and every key is listed exactly once, under the type of *)
(* its node.                                                               *)
C3_IndexAgreesWithMapping ==
    /\ ListedIds(memory_clusters) \subseteq Keys(memories)
    /\ \A n \in Nodes(memories) :
          /\ ListedCount(memory_clusters, n.id) = 1
          /\ n.memory_type \in DOMAIN memory_clusters
          /\ InList(memory_clusters[n.memory_type], n.id)

(* C4: every store call creates its node under an id that no stored node   *)
(* has yet.                                                                *)
C4_StoreUsesFreshId ==
    [][ call'.name = "store" => call'.id \notin Keys(memories) ]_vars

(* the score of the claim, from the node as it is before the call:         *)
(* strength + 0.2 if the types are equal + 0.3 x the mean of 1 - |a - b|   *)
(* over the shared dimensions, as a numerator over ScoreDen                *)
ClaimScore(n, query_type, context, t) ==
    LET shared == DOMAIN context \cap DOMAIN n.anchor_context
        closeness == [ k \in shared |-> 10 - Abs(context[k] - n.anchor_context[k]) ]
    IN GetCurrentStrength(n, t) * (ScoreDen \div StrengthDen)
       + (IF n.memory_type = query_type THEN TypeBonus * (ScoreDen \div 100) ELSE 0)
       + (IF shared = {} THEN 0
          ELSE (SimilarityWeight * SumOver(closeness, shared) * (ScoreDen \div 100))
                   \div Cardinality(shared))

Eligible(mems, t) == { n \in Nodes(mems) : GetCurrentStrength(n, t) >= ThresholdNum }

(* C5: retrieve returns the min(limit, number of eligible nodes) eligible  *)
(* nodes of highest score, each once, in descending score order, and the   *)
(* relevance score it reports for a node is the score of that node as it   *)
(* was before the call.                                                    *)
C5_RetrieveRanksByPriorScore ==
    [][ call'.name = "retrieve" =>
          LET res == call'.results
              q == call'.query_type
              ctx == call'.anchor_context
              elig == Eligible(memories, now)
              prior(id) == ClaimScore(NodeOf(memories, id), q, ctx, now)
          IN /\ Len(res) = Min(call'.limit, Cardinality(elig))
             /\ \A r \in 1..Len(res) :
                   /\ res[r].dict.id \in { n.id : n \in elig }
                   /\ res[r].relevance_score = prior(res[r].dict.id)
             /\ \A r1, r2 \in 1..Len(res) :
                   /\ r1 < r2 => res[r1].relevance_score >= res[r2].relevance_score
                   /\ r1 # r2 => res[r1].dict.id # res[r2].dict.id
             /\ \A n \in elig : n.id \notin ReturnedIds(call') =>
                   \A r \in 1..Len(res) : prior(n.id) <= res[r].relevance_score ]_vars

(* a retrieve with a matching type and a shared dimension has cut the list *)
(* at limit, leaving an eligible node out                                  *)
C5_Witness ==
    /\ call.name = "retrieve"
    /\ Len(call.results) = call.limit
    /\ \E r \in 1..Len(call.results) :
          /\ call.results[r].dict.memory_type = call.query_type
          /\ DOMAIN call.results[r].dict.anchor_context \cap DOMAIN call.anchor_context # {}
    /\ \E n \in Eligible(memories, now) : n.id \notin ReturnedIds(call)

(* C6: retrieve reinforces exactly the nodes it returns: a returned node   *)
(* gets access count + 1, last access = now, importance + 0.01 capped at   *)
(* 1.0 and nothing else changed; every other node is unchanged; no node is *)
(* added or removed and the type index is unchanged.                       *)
C6_RetrieveReinforcesReturned ==
    [][ call'.name = "retrieve" =>
          /\ Len(memories') = Len(memories)
          /\ memory_clusters' = memory_clusters
          /\ \A i \in 1..Len(memories) :
                IF memories[i].id \in ReturnedIds(call')
                THEN memories'[i] =
                       [ memories[i] EXCEPT
                           !.access_count = memories[i].access_count + 1,
                           !.last_accessed = now,
                           !.importance = IF memories[i].importance + 1 > 100
                                          THEN 100 ELSE memories[i].importance + 1 ]
                ELSE memories'[i] = memories[i] ]_vars

(* a retrieve has returned a node whose importance was already 1.0 and has *)
(* left another node out                                                   *)
C6_Witness ==
    /\ call.name = "retrieve"
    /\ \E r \in 1..Len(call.results) :
          /\ call.results[r].dict.importance = 100
          /\ call.results[r].dict.access_count = 2
    /\ \E n \in Nodes(memories) : n.id \notin ReturnedIds(call)

(* C7: cleanup removes the nodes below the threshold and only those: no    *)
(* node left is below it, every node at or above it is still stored        *)
(* unchanged, and the id of each removed node is in neither the mapping    *)
(* nor the type index.                                                     *)
C7_CleanupRemovesExactlyWeak ==
    [][ call'.name = "cleanup" =>
          /\ \A n \in Nodes(memories') : GetCurrentStrength(n, now) >= ThresholdNum
          /\ \A n \in Nodes(memories) :
                IF GetCurrentStrength(n, now) >= ThresholdNum
                THEN n \in Nodes(memories')
                ELSE /\ n.id \notin Keys(memories')
                     /\ n.id \notin ListedIds(memory_clusters') ]_vars

(* C8: in the retrieval scenario with every call made at the same clock   *)
(* reading T, retrieve returns all three stored memories, the crisis       *)
(* memory (the first one stored) first.                                    *)
C8_ScenarioCrisisFirst ==
    (scenario.step = 4 /\ now = scenario.start) =>
        /\ Len(call.results) = 3
        /\ call.results[1].dict.memory_type = "crisis"
        /\ call.results[1].dict.content = 1
        /\ { call.results[r].dict.content : r \in 1..Len(call.results) } = {1, 2, 3}

----------------------------------------------------------------------------
(* Properties of the mixer *)

Called == mix_outcome # NotCalled

RequestNames == { mix_request.combinations[i][1] : i \in 1..Len(mix_request.combinations) }

RequestWeightSum ==
    LET w == [ i \in 1..Len(mix_request.combinations) |-> mix_request.combinations[i][2] ]
    IN SumOver(w, 1..Len(mix_request.combinations))

(* C9: mix raises the validation error (ValueError), returning nothing,    *)
(* whenever the weights sum to less than 0.99 or more than 1.01, and the   *)
(* weight test raises nothing when the sum is within 0.01 of 1.0.          *)
C9_WeightSumValidated ==
    Called =>
        IF RequestWeightSum < 990 \/ RequestWeightSum > 1010
        THEN mix_outcome = Raised("ValueError", "mix_personalities")
        ELSE mix_outcome.status # "ValueError"

(* mix has rejected weights summing to 0.8 or to 1.3 *)
C9_Witness ==
    /\ Called
    /\ RequestWeightSum \in {800, 1300}
    /\ mix_outcome.status = "ValueError"

(* C10: whenever a combination names a profile that is not in the catalog, *)
(* mix raises the validation error (ValueError, as for a bad weight sum)   *)
(* and returns nothing.                                                    *)
C10_UnknownNameValidationError ==
    (Called /\ ~(RequestNames \subseteq Foundations)) => mix_outcome.status = "ValueError"

Returned == Called /\ mix_outcome.status = "returned"

(* the sum over the components of value x weight, in millionths, read from *)
(* the catalog                                                             *)
BlendTotal(field, key) ==
    LET c == mix_request.combinations
        term == [ i \in 1..Len(c) |-> GetFoundationPersonality(c[i][1])[field][key] * c[i][2] ]
    IN SumOver(term, 1..Len(c))

(* r, in thousandths, is total, in millionths, rounded to three decimals *)
IsRounded3(r, total) == 2 * Abs(1000 * r - total) <= 1000

(* C11: in every profile mix returns, each of the four core-vector         *)
(* dimensions and each of the ten trait facets is the sum over the         *)
(* components of value x weight, rounded to three decimals, dimension by   *)
(* dimension; scientist 0.6 + artist 0.4 gives openness_intellect 0.91.    *)
C11_BlendPerDimension ==
    Returned =>
        /\ DOMAIN mix_outcome.core_vector_default = CoreKeys
        /\ DOMAIN mix_outcome.personality_vector = PersonalityKeys
        /\ \A key \in CoreKeys :
               IsRounded3(mix_outcome.core_vector_default[key],
                          BlendTotal("core_vector_default", key))
        /\ \A key \in PersonalityKeys :
               IsRounded3(mix_outcome.personality_vector[key],
                          BlendTotal("personality_vector", key))
        /\ mix_request.combinations = << <<"scientist", 600>>, <<"artist", 400>> >>
               => mix_outcome.personality_vector["openness_intellect"] = 910

(* scientist 0.6 + artist 0.4 has been mixed *)
C11_Witness ==
    /\ Returned
    /\ mix_request.combinations = << <<"scientist", 600>>, <<"artist", 400>> >>
    /\ mix_outcome.personality_vector["openness_intellect"] = 910
    /\ mix_outcome.core_vector_default["Time"] = 600

(* C12: two mix calls with the same combinations and the same custom_goal, *)
(* on the unchanged catalog, return results equal in every field other    *)
(* than the generated id and the creation timestamp: goal statement,       *)
(* persona style, both vectors, examples, and the root nodes in content    *)
(* and in order.                                                           *)
C12_MixDeterministic ==
    (mix_previous # NotCalled /\ mix_previous.status = "returned")
        => mix_outcome = mix_previous

(* the two results hold the same root nodes, whatever their order *)
RemixAgreesUpToRootNodeOrder ==
    (mix_previous # NotCalled /\ mix_previous.status = "returned")
        => /\ mix_outcome.status = "returned"
           /\ { mix_outcome.root_nodes[i] : i \in DOMAIN mix_outcome.root_nodes }
                = { mix_previous.root_nodes[i] : i \in DOMAIN mix_previous.root_nodes }
           /\ [ mix_outcome EXCEPT !.root_nodes = <<>> ]
                = [ mix_previous EXCEPT !.root_nodes = <<>> ]

----------------------------------------------------------------------------
(* Properties of the controllers *)

(* the executability predicate for the action id of a controller, in the   *)
(* current state                                                           *)
Executable(agent_id, id) ==
    /\ clock - agents[agent_id].last_executed[id] >= AvailableActions[id].cooldown
    /\ agents[agent_id].energy >= AvailableActions[id].energy_cost
    /\ \A dim \in DOMAIN AvailableActions[id].anchor_requirements :
           sessions[agent_id].core[dim] >= AvailableActions[id].anchor_requirements[dim]

(* the step is a cycle that has read the diagnostics of its session *)
CycleWithSnapshot == event'.name = "cycle" /\ ~(event'.raised /\ ~event'.decided)

(* C13: after every cycle that has read its snapshot the state tag is      *)
(* Crisis if chaos_proximity > 0.8, otherwise Thinking if                  *)
(* velocity_magnitude > 0.3, otherwise Acting if at least one action is    *)
(* executable when the cycle starts, otherwise Idle, whatever the tag was  *)
(* before; a controller reading chaos_proximity 0.85 is in Crisis.         *)
C13_TagFromSnapshot ==
    [][ CycleWithSnapshot =>
          agents'[event'.agent].state =
              IF event'.view.chaos_proximity > 80 THEN "crisis"
              ELSE IF event'.view.velocity_magnitude > 30 THEN "thinking"
              ELSE IF \E id \in ActionIds : Executable(event'.agent, id) THEN "acting"
              ELSE "idle" ]_vars

(* a controller that was in another state when it made an earlier decision *)
(* has read chaos_proximity 0.85 and is in Crisis                          *)
C13_Witness ==
    /\ event.name = "cycle"
    /\ event.view.chaos_proximity = 85
    /\ agents[event.agent].state = "crisis"
    /\ \E k \in DOMAIN agents[event.agent].learning_data :
           agents[event.agent].learning_data[k].agent_state \in { "acting", "thinking" }

(* the step stamps the action id of a controller as executed *)
ExecutedIn(agent_id, id) ==
    agents'[agent_id].last_executed[id] # agents[agent_id].last_executed[id]

(* the step changes something of a controller that only an execution       *)
(* changes                                                                 *)
ChargedIn(agent_id) ==
    \/ agents'[agent_id].energy < agents[agent_id].energy
    \/ agents'[agent_id].last_decision_time # agents[agent_id].last_decision_time
    \/ agents'[agent_id].action_history # agents[agent_id].action_history
    \/ agents'[agent_id].learning_data # agents[agent_id].learning_data
    \/ sessions'[agent_id] # sessions[agent_id]

(* C14: an action is executed only when, at that moment, its cooldown has  *)
(* passed, the energy (as regenerated in the cycle) covers its cost and    *)
(* every required dimension is at or above its minimum, under every        *)
(* strategy; a cycle that executes nothing, its proposal having failed     *)
(* the predicate, changes neither timestamps, energy downwards, history,   *)
(* learning log nor state vector.                                          *)
C14_ExecutedOnlyIfExecutable ==
    [][ \A agent_id \in AgentIds :
          /\ \A id \in ActionIds :
                 ExecutedIn(agent_id, id) =>
                    /\ event'.proposal = id
                    /\ clock - agents[agent_id].last_executed[id]
                          >= AvailableActions[id].cooldown
                    /\ agents'[agent_id].energy >= 0
                    /\ agents'[agent_id].energy <= FullEnergy - AvailableActions[id].energy_cost
                    /\ \A dim \in DOMAIN AvailableActions[id].anchor_requirements :
                           sessions[agent_id].core[dim]
                             >= AvailableActions[id].anchor_requirements[dim]
          /\ ChargedIn(agent_id) => \E id \in ActionIds : ExecutedIn(agent_id, id) ]_vars

(* the artist has proposed an action that was not executable, and nothing  *)
(* was executed                                                            *)
C14_Witness ==
    /\ event.name = "cycle"
    /\ event.agent = "artist_01"
    /\ event.proposal \in ActionIds
    /\ ~event.executed
    /\ ~event.raised

(* the cooldown of the action of the given name *)
CooldownOfName(name) ==
    AvailableActions[CHOOSE id \in ActionIds : AvailableActions[id].name = name].cooldown

(* the last_executed stamp a controller holds for the action of a name *)
StampOfName(agent_id, name) ==
    agents[agent_id].last_executed[CHOOSE id \in ActionIds : AvailableActions[id].name = name]

(* the executions a log records are a cooldown apart for each action, and  *)
(* as far from the latest execution of the action                          *)
CooldownApart(agent_id, log) ==
    /\ \A i, j \in DOMAIN log :
           (i < j /\ log[i].action = log[j].action)
               => log[j].timestamp - log[i].timestamp >= CooldownOfName(log[i].action)
    /\ \A i \in DOMAIN log :
           \/ StampOfName(agent_id, log[i].action) = log[i].timestamp
           \/ StampOfName(agent_id, log[i].action) - log[i].timestamp
                 >= CooldownOfName(log[i].action)

(* C15: on one controller two executions of the same action are at least   *)
(* the cooldown of the action apart, as the action history, the learning   *)
(* log and the last_executed stamps record them.                           *)
C15_CooldownBetweenExecutions ==
    \A agent_id \in AgentIds :
        /\ CooldownApart(agent_id, agents[agent_id].action_history)
        /\ CooldownApart(agent_id, agents[agent_id].learning_data)

(* an action executed before is proposed within its cooldown, with the     *)
(* energy and the anchor requirements satisfied, and is not executed       *)
C15_Witness ==
    /\ event.name = "cycle"
    /\ event.proposal \in ActionIds
    /\ ~event.executed
    /\ agents[event.agent].last_executed[event.proposal] >= StartTime
    /\ clock - agents[event.agent].last_executed[event.proposal]
          < AvailableActions[event.proposal].cooldown
    /\ agents[event.agent].energy >= AvailableActions[event.proposal].energy_cost
    /\ \A dim \in DOMAIN AvailableActions[event.proposal].anchor_requirements :
           sessions[event.agent].core[dim]
             >= AvailableActions[event.proposal].anchor_requirements[dim]

(* C16: the learning log never holds more than 100 entries; an append      *)
(* adds one entry at the end, and the append that would make the log       *)
(* exceed 100 leaves exactly the 50 most recent entries, the new one       *)
(* last, in their order.                                                   *)
C16_LearningLogCapped ==
    [][ \A agent_id \in AgentIds :
          LET old == agents[agent_id].learning_data
              new == agents'[agent_id].learning_data
          IN /\ Len(new) <= 100
             /\ new # old =>
                   /\ new[Len(new)].timestamp = clock
                   /\ IF Len(old) < 100
                      THEN new = Append(old, new[Len(new)])
                      ELSE /\ Len(new) = 50
                           /\ \A k \in 1..49 : new[k] = old[51 + k] ]_vars

(* the 101st execution of a controller has left 50 entries in its log *)
C16_Witness ==
    \E agent_id \in AgentIds :
        /\ Len(agents[agent_id].action_history) = 101
        /\ Len(agents[agent_id].learning_data) = 50
        /\ agents[agent_id].learning_data[50].timestamp
              = agents[agent_id].action_history[101].timestamp
        /\ agents[agent_id].learning_data[1].timestamp
              = agents[agent_id].action_history[52].timestamp

(* the core vector with the effect deltas of an action added and clamped *)
WithEffects(core, id) ==
    [ dim \in DOMAIN core |->
        IF dim \in DOMAIN AvailableActions[id].anchor_effects
        THEN LET sum == core[dim] + AvailableActions[id].anchor_effects[dim]
             IN IF sum < 0 THEN 0 ELSE IF sum > 100 THEN 100 ELSE sum
        ELSE core[dim] ]

(* the step is a cycle of a controller in which the execution of the       *)
(* proposed action raised and returned an error result                     *)
FailedExecution == event'.name = "cycle" /\ event'.failed

(* C17: when applying the effects raises during the execution of an        *)
(* action, the exception does not leave the cycle and the loop goes to its *)
(* normal sleep; a learning-log entry marked unsuccessful is appended;     *)
(* last_executed stays stamped and the energy cost stays deducted; the     *)
(* core vector is as the failed call left it, changed or not.              *)
C17_FailureCaughtNoRefund ==
    [][ FailedExecution =>
          LET agent_id == event'.agent
              id == event'.proposal
              old == agents[agent_id]
              new == agents'[agent_id]
              regenerated ==
                  IF old.energy < 100
                  THEN Min(100, old.energy + (IF new.state = "idle" THEN 5 ELSE 2))
                  ELSE old.energy
          IN /\ ~event'.raised
             /\ \E i \in DOMAIN tasks :
                    /\ tasks[i].agent = agent_id
                    /\ tasks'[i] = [ agent |-> agent_id, pc |-> "sleeping",
                                     wake_at |-> clock + decision_frequency ]
             /\ Len(new.learning_data) = Len(old.learning_data) + 1
             /\ new.learning_data[Len(new.learning_data)].result_success = FALSE
             /\ new.learning_data[Len(new.learning_data)].action = AvailableActions[id].name
             /\ new.learning_data[Len(new.learning_data)].timestamp = clock
             /\ new.last_executed[id] = clock
             /\ new.last_decision_time = clock
             /\ new.energy = regenerated - AvailableActions[id].energy_cost
             /\ sessions'[agent_id].core
                   \in { sessions[agent_id].core, WithEffects(sessions[agent_id].core, id) } ]_vars

(* the first execution of a controller has failed after it had changed the *)
(* core vector, and the change is still there                              *)
C17_Witness ==
    /\ event.name = "cycle"
    /\ event.failed
    /\ agents[event.agent].action_history = <<>>
    /\ Len(agents[event.agent].learning_data) = 1
    /\ ~agents[event.agent].learning_data[1].result_success
    /\ sessions[event.agent].core \notin CoreInputs
    /\ agents[event.agent].energy < FullEnergy

(* stop_all_agents() has been called after start_all_agents() launched the *)
(* loops: the manager is marked running by the launch only, and not        *)
(* running again by stop_all_agents() only                                 *)
StoppedAfterLaunch == tasks # <<>> /\ ~manager.is_running

(* C18: once stop_all() has been called for the controllers whose loops    *)
(* start_all() launched, no loop begins another cycle: at its next test of *)
(* the running flag the loop exits, wherever the stop call fell - before   *)
(* the first step of the loop, during a cycle's sleep or during a backoff. *)
C18_NoCycleAfterStop ==
    [][ StoppedAfterLaunch => event'.name # "cycle" ]_vars

(* the task that runs the loop of a controller *)
TaskOf(agent_id) == CHOOSE i \in DOMAIN tasks : tasks[i].agent = agent_id

(* C19: an exception that leaves a cycle - raised by the read of the       *)
(* diagnostics, by the strategy or by the learning step - does not end the *)
(* loop: the loop sleeps the backoff with its running flag as it was; a    *)
(* loop that goes round runs a cycle when the flag is set and exits only   *)
(* when it is not; an exited loop stays exited.                            *)
C19_ErrorNeverEndsLoop ==
    [][ /\ (event'.name = "cycle" /\ event'.raised) =>
              /\ tasks'[TaskOf(event'.agent)]
                    = [ agent |-> event'.agent, pc |-> "sleeping",
                        wake_at |-> clock + Backoff ]
              /\ agents'[event'.agent].is_running
        /\ \A i \in DOMAIN tasks :
              /\ (tasks[i].pc = "sleeping" /\ tasks'[i] # tasks[i]) =>
                    IF agents[tasks[i].agent].is_running
                    THEN event'.name = "cycle" /\ tasks'[i].pc = "sleeping"
                    ELSE event'.name = "exit" /\ tasks'[i].pc = "exited"
              /\ tasks'[i].pc = "exited" =>
                    \/ tasks[i].pc = "exited"
                    \/ tasks[i].pc = "sleeping" /\ ~agents[tasks[i].agent].is_running ]_vars

(* a cycle has executed an action and its learning step raised; a backoff  *)
(* later the loop has run its next cycle and is asleep again, the flag set *)
C19_Witness ==
    /\ event.name = "cycle"
    /\ ~event.raised
    /\ agents[event.agent].is_running
    /\ tasks[TaskOf(event.agent)].pc = "sleeping"
    /\ Len(agents[event.agent].action_history) = 1
    /\ agents[event.agent].learning_data = <<>>
    /\ agents[event.agent].action_history[1].timestamp = clock - Backoff

(* C20: a cycle of one controller, whether it executes an action or not,   *)
(* changes no last_executed stamp, nor the energy, the action history or   *)
(* the learning log of another controller, however the cycles of the       *)
(* controllers interleave.                                                 *)
C20_NoSharedActionState ==
    [][ event'.name = "cycle" =>
          \A other \in AgentIds \ { event'.agent } :
              /\ agents'[other].last_executed = agents[other].last_executed
              /\ agents'[other].energy = agents[other].energy
              /\ agents'[other].action_history = agents[other].action_history
              /\ agents'[other].learning_data = agents[other].learning_data ]_vars

(* one controller has just executed an action, which is on cooldown there, *)
(* while the other controller, whose loop runs too, has never executed it  *)
(* and can execute it now                                                  *)
C20_Witness ==
    /\ event.name = "cycle"
    /\ event.executed
    /\ agents[event.agent].last_executed[event.proposal] = clock
    /\ ~Executable(event.agent, event.proposal)
    /\ \E other \in AgentIds \ { event.agent } :
           /\ Executable(other, event.proposal)
           /\ agents[other].last_executed[event.proposal] = 0
           /\ agents[other].action_history # <<>>
           /\ tasks[TaskOf(other)].pc = "sleeping"

(* the energy of a controller after the regeneration of a cycle that has   *)
(* computed the given state tag                                            *)
Regenerated(energy, tag) ==
    IF energy >= 100 THEN energy
    ELSE IF tag = "idle"
         THEN (IF energy + 5 > 100 THEN 100 ELSE energy + 5)
         ELSE (IF energy + 2 > 100 THEN 100 ELSE energy + 2)

(* C21: in every cycle that has read its snapshot the energy is            *)
(* regenerated by 0.05 if the tag the cycle has just computed is Idle and  *)
(* by 0.02 otherwise, capped at 1.0; a cycle that executes an action has   *)
(* found the regenerated energy to cover the cost and leaves the           *)
(* regenerated energy less the cost; any other cycle leaves the            *)
(* regenerated energy.                                                     *)
C21_RegenerationBeforeDecision ==
    [][ CycleWithSnapshot =>
          LET old == agents[event'.agent]
              new == agents'[event'.agent]
              regenerated == Regenerated(old.energy, new.state)
          IN IF event'.executed
             THEN /\ regenerated >= AvailableActions[event'.proposal].energy_cost
                  /\ new.energy = regenerated - AvailableActions[event'.proposal].energy_cost
             ELSE new.energy = regenerated ]_vars

(* a controller that was in Crisis and below full energy has found no      *)
(* action executable, is Idle and has gained 0.05                          *)
C21_Witness ==
    /\ event.name = "cycle"
    /\ ~event.raised
    /\ ~event.decided
    /\ agents[event.agent].state = "idle"
    /\ agents[event.agent].energy
          = FullEnergy - AvailableActions["emergency_recalibrate"].energy_cost + 5
    /\ \E k \in DOMAIN agents[event.agent].learning_data :
           agents[event.agent].learning_data[k].agent_state = "crisis"

(* C22: the energy of every controller is within [0,1] in every state.     *)
C22_EnergyWithinBounds ==
    \A agent_id \in AgentIds :
        /\ agents[agent_id].energy >= 0
        /\ agents[agent_id].energy <= 100

(* a controller has spent all of its energy: the latest of its executions  *)
(* has taken the energy to 0                                               *)
C22_Witness ==
    /\ event.name = "cycle"
    /\ event.executed
    /\ agents[event.agent].energy = 0
    /\ Len(agents[event.agent].action_history) > 1

(* the seconds between the last-decision timestamp of a controller and the *)
(* present                                                                 *)
SecondsSinceLastDecision(agent_id) ==
    5 * (clock - agents[agent_id].last_decision_time)

(* C23: a cycle that has read its snapshot consults the strategy exactly   *)
(* when the time since the last-decision timestamp exceeds the cadence of  *)
(* 10 s, or 3 s when the tag the cycle has computed is Crisis; a cycle     *)
(* that does not consult it proposes and executes nothing and leaves the   *)
(* timestamps, the action history, the learning log and the state vector   *)
(* as they were.                                                           *)
C23_DecisionGating ==
    [][ CycleWithSnapshot =>
          LET agent_id == event'.agent
              due == IF agents'[agent_id].state = "crisis"
                     THEN SecondsSinceLastDecision(agent_id) > 3
                     ELSE SecondsSinceLastDecision(agent_id) > 10
          IN /\ event'.decided <=> due
             /\ ~event'.decided =>
                   /\ event'.proposal = NoAction
                   /\ ~event'.executed
                   /\ agents'[agent_id].last_executed = agents[agent_id].last_executed
                   /\ agents'[agent_id].last_decision_time
                         = agents[agent_id].last_decision_time
                   /\ agents'[agent_id].action_history = agents[agent_id].action_history
                   /\ agents'[agent_id].learning_data = agents[agent_id].learning_data
                   /\ sessions'[agent_id] = sessions[agent_id] ]_vars

(* a controller in Crisis has consulted its strategy 5 s after its last    *)
(* decision, less than the cadence, and has executed nothing               *)
C23_Witness ==
    /\ event.name = "cycle"
    /\ event.decided
    /\ ~event.executed
    /\ agents[event.agent].state = "crisis"
    /\ SecondsSinceLastDecision(event.agent) = 5

----------------------------------------------------------------------------
(* Properties of a store shared by threads *)

(* C24: the calls on a shared store exclude one another: while a           *)
(* retrieve iterates over the mapping of the nodes no other call changes   *)
(* the mapping, and no call is left by the error of an iteration over a    *)
(* mapping that changed.                                                   *)
C24_CallsMutuallyExclusive ==
    \A c \in DOMAIN callers :
        /\ callers[c].pc = "iterating" => callers[c].size = Len(memories)
        /\ callers[c].pc # "raised"

----------------------------------------------------------------------------
(* Properties of the controllers under a deadline *)

(* the loop of the task is no longer live *)
LoopEnded(i) == tasks[i].pc \in { "exited", "cancelled" }

(* C25: a controller whose loop has ended, by itself or by the             *)
(* cancellation of a deadline, reads not-running: the status never shows   *)
(* as running a controller with no live loop.                              *)
C25_TerminalStatus ==
    \A i \in DOMAIN tasks :
        LoopEnded(i) => ~agents[tasks[i].agent].is_running

----------------------------------------------------------------------------
(* Further properties of the memory store *)

(* C26: the decay rate of every node, computed at its creation from its    *)
(* type and importance, lies in (0,1].                                     *)
C26_DecayRateInUnitInterval ==
    \A i \in DOMAIN memories :
        /\ memories[i].decay_rate > 0
        /\ memories[i].decay_rate <= RateDen

(* C27: an access of a node whose importance is in [0,1] leaves the        *)
(* importance 0.01 higher, or at 1.0 when that would exceed 1.0, never     *)
(* lower than it was, and the access count exactly 1 higher; after any     *)
(* number of accesses the importance is in [0,1] and the access count is   *)
(* at least 1.                                                             *)
C27_AccessRaisesImportance ==
    [][ /\ call'.name = "access" =>
              /\ memories'[1].importance >= memories[1].importance
              /\ memories'[1].importance
                    = (IF memories[1].importance <= 99
                       THEN memories[1].importance + 1 ELSE 100)
              /\ memories'[1].access_count = memories[1].access_count + 1
        /\ \A i \in DOMAIN memories' :
              /\ memories'[i].importance \in 0..100
              /\ memories'[i].access_count >= 1 ]_vars

(* a node created with importance 0.98 has been accessed three times: its  *)
(* importance has reached 1.0 and stayed there                             *)
C27_Witness ==
    /\ call.name = "access"
    /\ retrieved = 3
    /\ memories[1].importance = 100
    /\ memories[1].access_count = 4
    /\ memories[1].decay_rate = CalculateDecayRate(memories[1].memory_type, 98)

(* the number of nodes the store holds once the node of a store call is    *)
(* inserted, before any eviction                                           *)
CountAfterInsertion ==
    IF call'.id \in Keys(memories) THEN Len(memories) ELSE Len(memories) + 1

(* C28: after a store call the store holds at most max_memories nodes or   *)
(* only nodes at or above the threshold; a store call whose insertion      *)
(* leaves at most max_memories nodes runs no eviction and removes no node: *)
(* every node stored before the call is still stored after it.             *)
C28_EvictionOnlyOverCapacity ==
    [][ call'.name = "store" =>
          /\ \/ Len(memories') <= max_memories
             \/ \A n \in Nodes(memories') : GetCurrentStrength(n, now) >= ThresholdNum
          /\ CountAfterInsertion <= max_memories =>
                Nodes(memories) \subseteq Nodes(memories') ]_vars


----------------------------------------------------------------------------
(* Properties of the texts of a mixed profile *)

(* the text before the first period of the goal statement of a catalog     *)
(* entry, as the goal statement of a mix carries it                        *)
LeadingClause(name) ==
    CASE name = "scientist"
           -> "systematically explore, test hypotheses, and share evidence-based knowledge"
      [] name = "artist"
           -> "create, inspire, and explore the boundaries of imagination"
      [] name = "skeptic"
           -> "question assumptions, demand evidence, and help separate signal from noise"

(* the positions of the request whose weight exceeds a threshold *)
Above(threshold) ==
    { i \in DOMAIN mix_request.combinations : mix_request.combinations[i][2] > threshold }

(* C29: when no custom goal is supplied, the goal statement of a returned  *)
(* mix carries, between its fixed opening and ending, the leading clause   *)
(* of every component of weight > 0.3, in the order of the request, and    *)
(* that of no component of weight <= 0.3.                                  *)
C29_DefaultGoalFromSignificant ==
    (Returned /\ mix_request.custom_goal = NoGoal) =>
        LET goal == mix_outcome.goal_statement
            picked == Above(300)
        IN /\ Len(goal) = Cardinality(picked) + 2
           /\ goal[1] = "Combine "
           /\ goal[Len(goal)] = " in a unified approach."
           /\ \A i \in picked :
                  goal[1 + Cardinality({ j \in picked : j <= i })]
                    = LeadingClause(mix_request.combinations[i][1])

(* a mix of a component of weight 0.7 and one of weight exactly 0.3: the   *)
(* goal statement carries the clause of the first only                     *)
C29_Witness ==
    /\ Returned
    /\ mix_request.custom_goal = NoGoal
    /\ mix_request.combinations = << <<"artist", 700>>, <<"scientist", 300>> >>
    /\ mix_outcome.goal_statement
          = << "Combine ", LeadingClause("artist"), " in a unified approach." >>

(* the position of the highest-weight component of the request, the first  *)
(* one on a tie                                                            *)
DominantPosition ==
    CHOOSE d \in DOMAIN mix_request.combinations :
        \A j \in DOMAIN mix_request.combinations :
            \/ mix_request.combinations[j][2] < mix_request.combinations[d][2]
            \/ mix_request.combinations[j][2] = mix_request.combinations[d][2] /\ d <= j

(* C30: the persona style of a returned mix is the style of the            *)
(* highest-weight component, the first one on a tie, with a note that      *)
(* names, in the order of the request, every other component of weight     *)
(* > 0.2 and none of weight <= 0.2; the note is empty when there is no     *)
(* such component.                                                         *)
C30_StyleFromDominant ==
    Returned =>
        LET style == mix_outcome.persona_style
            named == Above(200) \ { DominantPosition }
        IN /\ style.base_style
                = GetFoundationPersonality(
                      mix_request.combinations[DominantPosition][1]).persona_style
           /\ Len(style.enhanced_with) = Cardinality(named)
           /\ \A i \in named :
                  style.enhanced_with[Cardinality({ j \in named : j <= i })]
                    = mix_request.combinations[i][1]

(* C31: when the mix of a request without custom goal returns, the mix of  *)
(* the request with the custom goal it supplies returns too, its goal      *)
(* statement is the custom goal, and every other field is that of the mix  *)
(* without custom goal.                                                    *)
C31_CustomGoalOnly ==
    (Called /\ mix_previous # NotCalled /\ mix_previous.status = "returned") =>
        /\ mix_outcome.status = "returned"
        /\ mix_outcome.goal_statement = << mix_request.custom_goal >>
        /\ mix_outcome = [ mix_previous EXCEPT !.goal_statement = mix_outcome.goal_statement ]

----------------------------------------------------------------------------
(* A manager with two controllers of one class, each over a session of its *)
(* own that starts from the same core.  No cycle meets a fault, and the    *)
(* sessions report one of two views.                                       *)

TwinIds == { "twin_01", "twin_02" }

TwinInit ==
    /\ now = 0
    /\ memories = <<>>
    /\ memory_clusters = [ t \in {} |-> <<>> ]
    /\ stored = 0
    /\ retrieved = 0
    /\ call = NoCall
    /\ callers = <<>>
    /\ scenario = NoScenario
    /\ mix_request = NoRequest
    /\ mix_outcome = NotCalled
    /\ mix_previous = NotCalled
    /\ hash_seed = Unseeded
    /\ clock = StartTime
    /\ \E kind \in { "scientist", "artist" }, age \in AgeInputs :
           agents = [ id \in TwinIds |-> NewAgent(kind, StartTime - age) ]
    /\ \E core \in CoreInputs : sessions = [ id \in TwinIds |-> NewSession(core) ]
    /\ manager = [ agents |-> << "twin_01", "twin_02" >>, is_running |-> FALSE ]
    /\ tasks = <<>>
    /\ event = NoEvent
    /\ loaded = NotLoaded
    /\ redis = NoRedis
    /\ cleanup_pass = NoPass
    /\ request = NoRequestHandled

TwinLoopStart ==
    /\ \E i \in DOMAIN tasks :
           /\ tasks[i].pc = "created"
           /\ LoopTurn(i, [ agents[tasks[i].agent] EXCEPT !.is_running = TRUE ],
                       { "none" }, PairViews)
    /\ UNCHANGED <<clock, manager>>
    /\ UNCHANGED <<memvars, persistvars, scenario, mixvars>>

TwinLoopWake ==
    /\ \E i \in DOMAIN tasks :
           /\ tasks[i].pc = "sleeping"
           /\ clock >= tasks[i].wake_at
           /\ LoopTurn(i, agents[tasks[i].agent], { "none" }, PairViews)
    /\ UNCHANGED <<clock, manager>>
    /\ UNCHANGED <<memvars, persistvars, scenario, mixvars>>

TwinNext ==
    \/ Advance \/ StartAllAgents \/ TwinLoopStart \/ TwinLoopWake

TwinSpec == TwinInit /\ [][TwinNext]_vars

(* C32: when the strategy of a controller is consulted in a cycle, another *)
(* controller of the same class that carries the same state tag is         *)
(* proposed, on the same chaos_proximity and stability_trend, the same     *)
(* action id (or none), whatever its energy, its cooldown stamps and its   *)
(* state vector.                                                           *)
C32_StrategyOfTagAndView ==
    [][ (event'.name = "cycle" /\ event'.decided /\ ~event'.raised) =>
          \A other \in TwinIds \ { event'.agent } :
              (agents[other].state = agents'[event'.agent].state) =>
                  DecideAction(agents[other], sessions[other], event'.view, clock)
                      = event'.proposal ]_vars

(* C33: the action history of a controller never holds more entries than   *)
(* the cap of its learning log, the one cap the controller has, however    *)
(* many actions it executes.                                               *)
C33_HistoryBounded ==
    \A agent_id \in AgentIds :
        Len(agents[agent_id].action_history) <= learning_cap

(* the step is a cycle of a controller in which the proposed action was    *)
(* executed without an error result and which no exception left            *)
SuccessfulExecution ==
    event'.name = "cycle" /\ event'.executed /\ ~event'.failed /\ ~event'.raised

C35_EveryFoundationMixes ==
    (Called /\ RequestNames \subseteq Foundations /\ RequestWeightSum = 1000) => Returned

----------------------------------------------------------------------------
(* Session persistence: the request handlers and the cleanup pass are      *)
(* coroutines of one event loop, and each of them gives the loop up at     *)
(* every Redis command it awaits.  A step is what a coroutine does from    *)
(* one await to the next, its Redis command included.  time.time() is      *)
(* clock, in units of 5 s.                                                 *)

CLEANUP_AFTER_DAYS == 90

(* a day, in units of 5 s *)
DayUnits == 17280

CleanupAfter == CLEANUP_AFTER_DAYS * DayUnits

(* how many days pass at a time, and how many times *)
ElapseDays == 46

MaxElapses == 3

(* the routes that load a session: run_tick and send_input save it after,  *)
(* get_full_state does not                                                 *)
Routes == { "run_tick", "get_full_state" }

CleanupInit ==
    /\ now = 0
    /\ memories = <<>>
    /\ memory_clusters = [ t \in {} |-> <<>> ]
    /\ stored = 0
    /\ retrieved = 0
    /\ call = NoCall
    /\ callers = <<>>
    /\ scenario = NoScenario
    /\ mix_request = NoRequest
    /\ mix_outcome = NotCalled
    /\ mix_previous = NotCalled
    /\ hash_seed = Unseeded
    /\ clock = StartTime
    /\ agents = <<>>
    /\ sessions = <<>>
    /\ manager = NoManager
    /\ tasks = <<>>
    /\ event = NoEvent
    /\ loaded = NotLoaded
    /\ redis = NoRedis
    /\ cleanup_pass = NoPass
    /\ request = NoRequestHandled

DaysPass ==
    /\ clock + ElapseDays * DayUnits <= StartTime + MaxElapses * ElapseDays * DayUnits
    /\ clock' = clock + ElapseDays * DayUnits
    /\ UNCHANGED <<redis, cleanup_pass, request, loaded>>
    /\ UNCHANGED <<memvars, scenario, mixvars, agents, sessions, manager, tasks, event>>

(* a handler calls _get_session(sid): redis_client.get(key) *)
GetSession ==
    /\ request.pc = "idle"
    /\ \E sid \in SessionIds, route \in Routes :
           request' = [ pc |-> "loaded", sid |-> sid, route |-> route ]
    /\ UNCHANGED <<clock, redis, cleanup_pass, loaded>>
    /\ UNCHANGED <<memvars, scenario, mixvars, agents, sessions, manager, tasks, event>>

(* _update_last_accessed(sid), at the end of _get_session and at the end   *)
(* of _save_session                                                        *)
UpdateLastAccessed ==
    /\ request.pc \in { "loaded", "saved" }
    /\ redis' = [ redis EXCEPT !.last_accessed[request.sid] = clock ]
    /\ request' = IF request.pc = "loaded" /\ request.route = "run_tick"
                  THEN [ request EXCEPT !.pc = "got" ]
                  ELSE NoRequestHandled
    /\ UNCHANGED <<clock, cleanup_pass, loaded>>
    /\ UNCHANGED <<memvars, scenario, mixvars, agents, sessions, manager, tasks, event>>

(* _save_session(sid, session): redis_client.set of the session state *)
SaveSession ==
    /\ request.pc = "got"
    /\ redis' = [ redis EXCEPT !.session[request.sid] = TRUE ]
    /\ request' = [ request EXCEPT !.pc = "saved" ]
    /\ UNCHANGED <<clock, cleanup_pass, loaded>>
    /\ UNCHANGED <<memvars, scenario, mixvars, agents, sessions, manager, tasks, event>>

(* what is left of the pass after it is done with the first of its keys *)
NextKey(pass) ==
    IF Len(pass.keys) > 1
    THEN [ pass EXCEPT !.pc = "scan", !.keys = Tail(@) ]
    ELSE NoPass

(* cleanup_abandoned_sessions() up to the reply of redis_client.keys: the  *)
(* session ids that have a last-accessed key, in the order Redis gives     *)
CleanupStart ==
    /\ cleanup_pass.pc = "idle"
    /\ LET found == { sid \in SessionIds : redis.last_accessed[sid] # NoKey }
       IN /\ found # {}
          /\ \E keys \in [ 1..Cardinality(found) -> found ] :
                 /\ \A i, j \in DOMAIN keys : i # j => keys[i] # keys[j]
                 /\ cleanup_pass' = [ pc |-> "scan",
                                      cutoff_time |-> clock - CleanupAfter,
                                      keys |-> keys ]
    /\ UNCHANGED <<clock, redis, request, loaded>>
    /\ UNCHANGED <<memvars, scenario, mixvars, agents, sessions, manager, tasks, event>>

(* the pass reads the timestamp of its next key and compares it to the     *)
(* cutoff                                                                  *)
CleanupGet ==
    /\ cleanup_pass.pc = "scan"
    /\ LET timestamp == redis.last_accessed[Head(cleanup_pass.keys)]
       IN cleanup_pass' = IF timestamp # NoKey /\ timestamp < cleanup_pass.cutoff_time
                          THEN [ cleanup_pass EXCEPT !.pc = "delete_session" ]
                          ELSE NextKey(cleanup_pass)
    /\ UNCHANGED <<clock, redis, request, loaded>>
    /\ UNCHANGED <<memvars, scenario, mixvars, agents, sessions, manager, tasks, event>>

(* the pass deletes the session state *)
CleanupDeleteSession ==
    /\ cleanup_pass.pc = "delete_session"
    /\ redis' = [ redis EXCEPT !.session[Head(cleanup_pass.keys)] = FALSE ]
    /\ cleanup_pass' = [ cleanup_pass EXCEPT !.pc = "delete_key" ]
    /\ UNCHANGED <<clock, request, loaded>>
    /\ UNCHANGED <<memvars, scenario, mixvars, agents, sessions, manager, tasks, event>>

(* the pass deletes the last-accessed key and goes to its next key *)
CleanupDeleteKey ==
    /\ cleanup_pass.pc = "delete_key"
    /\ redis' = [ redis EXCEPT !.last_accessed[Head(cleanup_pass.keys)] = NoKey ]
    /\ cleanup_pass' = NextKey(cleanup_pass)
    /\ UNCHANGED <<clock, request, loaded>>
    /\ UNCHANGED <<memvars, scenario, mixvars, agents, sessions, manager, tasks, event>>

CleanupNext ==
    \/ DaysPass \/ GetSession \/ UpdateLastAccessed \/ SaveSession
    \/ CleanupStart \/ CleanupGet \/ CleanupDeleteSession \/ CleanupDeleteKey

CleanupSpec == CleanupInit /\ [][CleanupNext]_vars

(* C36: the cleanup pass deletes the state of a session only when, at the  *)
(* moment of the deletion, the session was last accessed more than 90 days *)
(* before; and when the pass has deleted the last-accessed key of a        *)
(* session, the state of the session is not there without it.              *)
C36_CleanupOnlyAbandoned ==
    [][ \A sid \in SessionIds :
          /\ (redis.session[sid] /\ ~redis'.session[sid]) =>
                 /\ redis.last_accessed[sid] # NoKey
                 /\ redis.last_accessed[sid] < clock - CleanupAfter
          /\ (/\ cleanup_pass.pc = "delete_key"
              /\ Head(cleanup_pass.keys) = sid
              /\ cleanup_pass' # cleanup_pass) => ~redis'.session[sid] ]_vars

----------------------------------------------------------------------------
(* One call of mix_personalities on components that the catalog holds data *)
(* for, with weights of either sign: the sum check is the only test of the *)
(* weights.                                                                *)

SignedNames == { "scientist", "artist", "skeptic" }

SignedWeights == { -500, -200, 500, 1200, 1500 }

SignedInputs == Lists(SignedNames \X SignedWeights, MaxComponents)

SignedInit ==
    /\ now = 0
    /\ memories = <<>>
    /\ memory_clusters = [ t \in {} |-> <<>> ]
    /\ stored = 0
    /\ retrieved = 0
    /\ call = NoCall
    /\ callers = <<>>
    /\ scenario = NoScenario
    /\ mix_request \in [ combinations : SignedInputs, custom_goal : GoalInputs ]
    /\ mix_outcome = NotCalled
    /\ mix_previous = NotCalled
    /\ hash_seed = Unseeded
    /\ clock = 0
    /\ agents = <<>>
    /\ sessions = <<>>
    /\ manager = NoManager
    /\ tasks = <<>>
    /\ event = NoEvent
    /\ loaded = NotLoaded
    /\ redis = NoRedis
    /\ cleanup_pass = NoPass
    /\ request = NoRequestHandled

SignedSpec == SignedInit /\ [][MixNext]_vars

(* C37: whenever mix returns, every dimension of the blended core vector   *)
(* and every facet of the blended personality vector lies in [0,1].        *)
C37_BlendInUnitInterval ==
    Returned =>
        /\ \A key \in CoreKeys :
               /\ mix_outcome.core_vector_default[key] >= 0
               /\ mix_outcome.core_vector_default[key] <= 1000
        /\ \A key \in PersonalityKeys :
               /\ mix_outcome.personality_vector[key] >= 0
               /\ mix_outcome.personality_vector[key] <= 1000

----------------------------------------------------------------------------
(* save_to_file and load_from_file.  json and isoformat give back the      *)
(* numbers, strings and timestamps they are given; the file is the dict    *)
(* save_to_file dumps.                                                     *)

(* save_to_file(filepath) at time t: the data written *)
SaveToFile(mems, clusters, t) ==
    [ memories |-> [ i \in 1..Len(mems) |-> ToDict(mems[i], t) ],
      clusters |-> clusters,
      config |-> [ max_memories |-> max_memories,
                   cleanup_threshold |-> cleanup_threshold ] ]

(* load_from_file(filepath) at time t on a fresh store: every node is      *)
(* constructed from the content, type, importance and context of its       *)
(* entry, and then given the id, the timestamps and the access count of    *)
(* the entry                                                               *)
LoadFromFile(data, t) ==
    [ status |-> "loaded",
      memories |-> [ i \in 1..Len(data.memories) |->
                       LET mem_data == data.memories[i]
                           node == NewNode(mem_data.content, mem_data.memory_type,
                                           mem_data.importance, mem_data.anchor_context, t)
                       IN [ node EXCEPT !.id = mem_data.id,
                                        !.created_at = mem_data.created_at,
                                        !.last_accessed = mem_data.last_accessed,
                                        !.access_count = mem_data.access_count ] ],
      memory_clusters |-> data.clusters,
      max_memories |-> data.config.max_memories,
      cleanup_threshold |-> data.config.cleanup_threshold ]

(* the store is saved, and the file is loaded into a fresh store *)
SaveAndLoad ==
    /\ loaded' = LoadFromFile(SaveToFile(memories, memory_clusters, now), now)
    /\ call' = [ NoCall EXCEPT !.name = "load" ]
    /\ UNCHANGED <<now, memories, memory_clusters, stored, retrieved>>
    /\ UNCHANGED <<callers, scenario, mixvars, agentvars, redis, cleanup_pass, request>>

SaveLoadNext == Tick \/ AccessNode \/ SaveAndLoad

SaveLoadSpec == AccessInit /\ [][SaveLoadNext]_vars

(* C38: the store loaded from the file a store was saved to has the same   *)
(* nodes (ids, contents, types, importances, timestamps, access counts,    *)
(* decay rates), the same type index and the same configuration as the     *)
(* store that was saved.                                                   *)
C38_SaveLoadRoundTrip ==
    [][ call'.name = "load" =>
          /\ loaded'.memories = memories
          /\ loaded'.memory_clusters = memory_clusters
          /\ loaded'.max_memories = max_memories
          /\ loaded'.cleanup_threshold = cleanup_threshold ]_vars

----------------------------------------------------------------------------
(* start_all_agents() called while loops of an earlier call exist: nothing *)
(* in start_all_agents or start_autonomous_loop looks for them.            *)

(* how many times start_all_agents() is called *)
MaxStarts == 2

RestartAllAgents ==
    /\ tasks # <<>>
    /\ Len(tasks) < MaxStarts * Len(manager.agents)
    /\ manager' = [ manager EXCEPT !.is_running = TRUE ]
    /\ tasks' = tasks \o [ i \in 1..Len(manager.agents) |-> NewTask(manager.agents[i]) ]
    /\ event' = NoEvent
    /\ UNCHANGED <<clock, agents, sessions>>
    /\ UNCHANGED <<memvars, persistvars, scenario, mixvars>>

RestartNext ==
    \/ Advance \/ StartAllAgents \/ RestartAllAgents
    \/ PairLoopStart \/ PairLoopWake \/ StopAutonomousLoop \/ StopAllAgents

RestartSpec == AgentInit /\ [][RestartNext]_vars

(* the loops of a controller that have entered their while and have not    *)
(* left it                                                                 *)
LiveLoops(agent_id) ==
    { i \in DOMAIN tasks : tasks[i].agent = agent_id /\ tasks[i].pc = "sleeping" }

(* C39: at any time at most one loop is live for a controller, whatever    *)
(* the sequence of start_all, stop and stop_all calls.                     *)
C39_AtMostOneLoop ==
    \A agent_id \in AgentIds : Cardinality(LiveLoops(agent_id)) <= 1

----------------------------------------------------------------------------
(* A manager and two controllers constructed with the same agent_id.       *)
(* self.agents is a dict keyed by agent_id: manager.agents is the sequence *)
(* of its values.                                                          *)

(* the agent_id each controller was constructed with *)
RegistryAgentId == [ id \in TwinIds |-> "scientist_01" ]

RegistryInit ==
    /\ now = 0
    /\ memories = <<>>
    /\ memory_clusters = [ t \in {} |-> <<>> ]
    /\ stored = 0
    /\ retrieved = 0
    /\ call = NoCall
    /\ callers = <<>>
    /\ scenario = NoScenario
    /\ mix_request = NoRequest
    /\ mix_outcome = NotCalled
    /\ mix_previous = NotCalled
    /\ hash_seed = Unseeded
    /\ clock = StartTime
    /\ \E age \in AgeInputs :
           agents = [ id \in TwinIds |-> NewAgent("scientist", StartTime - age) ]
    /\ \E core \in CoreInputs : sessions = [ id \in TwinIds |-> NewSession(core) ]
    /\ manager = NoManager
    /\ tasks = <<>>
    /\ event = NoEvent
    /\ loaded = NotLoaded
    /\ redis = NoRedis
    /\ cleanup_pass = NoPass
    /\ request = NoRequestHandled

(* the positions of the registry that hold a controller of this agent_id *)
RegisteredAt(agent_id) ==
    { k \in DOMAIN manager.agents : RegistryAgentId[manager.agents[k]] = agent_id }

(* add_agent(agent): self.agents[agent.agent_id] = agent *)
AddAgent ==
    /\ \E id \in TwinIds :
           LET held == RegisteredAt(RegistryAgentId[id])
           IN manager' = [ manager EXCEPT !.agents =
                             IF held = {}
                             THEN Append(@, id)
                             ELSE [ k \in DOMAIN @ |-> IF k \in held THEN id ELSE @[k] ] ]
    /\ event' = NoEvent
    /\ UNCHANGED <<clock, agents, sessions, tasks>>
    /\ UNCHANGED <<memvars, persistvars, scenario, mixvars>>

(* remove_agent(agent_id) *)
RemoveAgent ==
    /\ \E agent_id \in { RegistryAgentId[id] : id \in TwinIds } :
           LET held == RegisteredAt(agent_id)
           IN /\ agents' = [ id \in DOMAIN agents |->
                               IF \E k \in held : manager.agents[k] = id
                               THEN [ agents[id] EXCEPT !.is_running = FALSE ]
                               ELSE agents[id] ]
              /\ manager' = [ manager EXCEPT !.agents =
                                SelectSeq(@, LAMBDA id : RegistryAgentId[id] # agent_id) ]
    /\ event' = NoEvent
    /\ UNCHANGED <<clock, sessions, tasks>>
    /\ UNCHANGED <<memvars, persistvars, scenario, mixvars>>

RegistryNext ==
    \/ Advance \/ AddAgent \/ RemoveAgent \/ StartAllAgents
    \/ TwinLoopStart \/ TwinLoopWake \/ StopAllAgents

RegistrySpec == RegistryInit /\ [][RegistryNext]_vars

(* the controller is one that stop_all_agents() reaches *)
Registered(id) == \E k \in DOMAIN manager.agents : manager.agents[k] = id

(* C40: every cycle of a loop is a cycle of a controller that is           *)
(* registered in the manager when the cycle runs: no loop keeps running    *)
(* for a controller that stop_all no longer reaches.                       *)
C40_LoopsOfRegisteredOnly ==
    [][ event'.name = "cycle" => Registered(event'.agent) ]_vars

====
